---- MODULE Spec2Model ----
(***************************************************************************)
(* Document model and localization pipeline of fangirl-toolbox:            *)
(*   - the language registry and LanguageSchema / StringOrLanguageSchema   *)
(*     (src/localization/enums.ts, src/localization/schemas.ts),           *)
(*   - LocalizedText and its rich-text annotators                          *)
(*     (src/localization/actions.ts, src/localization/utils.ts),           *)
(*   - Paragraph / Chapter / Fanfiction (src/fanfictions/models.ts).       *)
(*                                                                         *)
(* A JavaScript string is a sequence of one-character strings; markup     *)
(* produced by the annotators is a sequence of markup tokens.  Language    *)
(* codes and names of the registry are TLA+ strings; Str turns a sequence  *)
(* of characters into one.                                                 *)
(***************************************************************************)
EXTENDS Naturals, Sequences, FiniteSets, TLC

VARIABLES
    langIn,     \* SpecLang: the value last handed to a language schema
    langOut,    \* SpecLang: what the schema returned for it
    lt,         \* SpecText: the LocalizedText instance under test (or NoText)
    ltOut,      \* SpecText: outcome of the last LocalizedText operation
    ltCall,     \* SpecText: the setRichText() call in flight
    ltHist,     \* SpecText: observation of the last completed setRichText()
    fanfic,     \* Spec: the Fanfiction instance
    chap,       \* Spec: heap of Chapter instances
    par,        \* Spec: heap of Paragraph instances
    now,        \* Spec: the clock read by new Date()
    casc,       \* Spec: the setRichTexts() calls, one record per call
    log,        \* Spec: annotator invocations, in order
    ret,        \* Spec: outcome of the last addChapter / addParagraph call
    tt,         \* SpecTranslations: the TranslatableText instance
    texts,      \* SpecTranslations: heap of LocalizedText instances
    ttOut,      \* SpecTranslations: outcome of the last TranslatableText operation
    made,       \* SpecCreate: the Fanfiction constructions, input and outcome
    pmade,      \* SpecCreate: the Paragraph constructions, input and outcome
    reqs,       \* SpecFork: heap of HttpRequest instances
    hdrs,       \* SpecFork: heap of Headers objects
    http,       \* SpecClient: the HttpClient call in flight and what it did
    en          \* SpecEnglish: the setEnglishTranslation() calls

langVars == <<langIn, langOut>>
textVars == <<lt, ltOut, ltCall, ltHist>>
docVars  == <<fanfic, chap, par, now, casc, log, ret>>
ttVars   == <<tt, texts, ttOut>>
createVars == <<made, pmade>>
httpVars == <<reqs, hdrs, http>>
enVars   == <<en>>
vars     == <<langIn, langOut, lt, ltOut, ltCall, ltHist,
              fanfic, chap, par, now, casc, log, ret, tt, texts, ttOut, made, pmade,
              reqs, hdrs, http, en>>

-----------------------------------------------------------------------------
(* Bounds of the model.                                                    *)

MaxRawLen == 2       \* longest raw string drawn as an input
MaxChapters == 2     \* longest chapters sequence of the Fanfiction
MaxParagraphs == 2   \* longest paragraphs sequence of a Chapter
MaxClock == 1        \* last clock value
MaxTexts == 3        \* places of the heap of LocalizedText instances
MaxTranslations == 3 \* longest translations sequence of the TranslatableText
MaxRussianLen == 4   \* longest raw text annotated as Russian
MaxRequests == 3     \* places of the heap of HttpRequest instances
MaxInterceptors == 2 \* longest list of interceptors passed with a call
MaxEnglishCalls == 3 \* setEnglishTranslation calls on the TranslatableText

-----------------------------------------------------------------------------
(* Strings.                                                                *)

SP == " "
EmptyStr == <<>>

RECURSIVE Str(_)
Str(s) == IF s = <<>> THEN "" ELSE Head(s) \o Str(Tail(s))

LowerLetters == <<"a", "b", "c", "d", "e", "f", "g", "h", "i", "j", "k", "l", "m",
                  "n", "o", "p", "q", "r", "s", "t", "u", "v", "w", "x", "y", "z">>
UpperLetters == <<"A", "B", "C", "D", "E", "F", "G", "H", "I", "J", "K", "L", "M",
                  "N", "O", "P", "Q", "R", "S", "T", "U", "V", "W", "X", "Y", "Z">>

upperChar(c) == IF \E i \in DOMAIN LowerLetters : LowerLetters[i] = c
                THEN UpperLetters[CHOOSE i \in DOMAIN LowerLetters : LowerLetters[i] = c]
                ELSE c
lowerChar(c) == IF \E i \in DOMAIN UpperLetters : UpperLetters[i] = c
                THEN LowerLetters[CHOOSE i \in DOMAIN UpperLetters : UpperLetters[i] = c]
                ELSE c

toUpperCase(s) == [i \in 1..Len(s) |-> upperChar(s[i])]
toLowerCase(s) == [i \in 1..Len(s) |-> lowerChar(s[i])]

RECURSIVE trimStart(_)
trimStart(s) == IF s # <<>> /\ Head(s) = SP THEN trimStart(Tail(s)) ELSE s

RECURSIVE trimEnd(_)
trimEnd(s) == IF s # <<>> /\ s[Len(s)] = SP
              THEN trimEnd(SubSeq(s, 1, Len(s) - 1)) ELSE s

trim(s) == trimEnd(trimStart(s))

-----------------------------------------------------------------------------
(* The language registry.                                                  *)

LanguageCode == {"en", "es", "fr", "it", "ja", "ko", "pt", "ru", "xx", "zh"}

LanguageName == {"English", "Spanish", "French", "Italian", "Japanese",
                 "Korean", "Portuguese", "Russian", "Undetermined", "Chinese"}

LANGUAGE_BY_CODE ==
    [c \in LanguageCode |->
       CASE c = "en" -> [code |-> "en", name |-> "English"]
         [] c = "es" -> [code |-> "es", name |-> "Spanish"]
         [] c = "fr" -> [code |-> "fr", name |-> "French"]
         [] c = "it" -> [code |-> "it", name |-> "Italian"]
         [] c = "ja" -> [code |-> "ja", name |-> "Japanese"]
         [] c = "ko" -> [code |-> "ko", name |-> "Korean"]
         [] c = "pt" -> [code |-> "pt", name |-> "Portuguese"]
         [] c = "ru" -> [code |-> "ru", name |-> "Russian"]
         [] c = "xx" -> [code |-> "xx", name |-> "Undetermined"]
         [] c = "zh" -> [code |-> "zh", name |-> "Chinese"]]

LANGUAGE_BY_NAME ==
    [n \in LanguageName |->
       CASE n = "English"      -> [code |-> "en", name |-> "English"]
         [] n = "Spanish"      -> [code |-> "es", name |-> "Spanish"]
         [] n = "French"       -> [code |-> "fr", name |-> "French"]
         [] n = "Italian"      -> [code |-> "it", name |-> "Italian"]
         [] n = "Japanese"     -> [code |-> "ja", name |-> "Japanese"]
         [] n = "Korean"       -> [code |-> "ko", name |-> "Korean"]
         [] n = "Portuguese"   -> [code |-> "pt", name |-> "Portuguese"]
         [] n = "Russian"      -> [code |-> "ru", name |-> "Russian"]
         [] n = "Undetermined" -> [code |-> "xx", name |-> "Undetermined"]
         [] n = "Chinese"      -> [code |-> "zh", name |-> "Chinese"]]

\* The canonical entries of the registry.
Registry == {LANGUAGE_BY_CODE[c] : c \in LanguageCode}

-----------------------------------------------------------------------------
(* Schemas.  A parse returns Ok(value) or Fail(error).  A value handed to  *)
(* a language schema is StrIn(s), s a TLA+ string, or ObjIn(code, name).   *)

Ok(v)   == [ok |-> TRUE, value |-> v]
Fail(e) == [ok |-> FALSE, error |-> e]

StrIn(s)     == [kind |-> "string", value |-> s]
ObjIn(c, n)  == [kind |-> "object", code |-> c, name |-> n]

ZodError  == "ZodError"
TypeError == "TypeError"

\* z.nativeEnum(LanguageCode).transform(lazyPick(LANGUAGE_BY_CODE))
LenientCodeSchema(s) == IF s \in LanguageCode THEN Ok(LANGUAGE_BY_CODE[s])
                        ELSE Ok([code |-> s, name |-> ""])
LanguageCodeSchema(s) == IF s \in LanguageCode THEN Ok(LANGUAGE_BY_CODE[s])
                         ELSE Fail(ZodError)

\* A slip: every name is looked up as the first entry of the name table.
LanguageNameSchemaFirstEntry(s) ==
    IF s \in LanguageName THEN Ok(LANGUAGE_BY_NAME["English"]) ELSE Fail(ZodError)

\* z.nativeEnum(LanguageName).transform(lazyPick(LANGUAGE_BY_NAME))
LanguageNameSchema(s) == IF s \in LanguageName THEN Ok(LANGUAGE_BY_NAME[s])
                         ELSE Fail(ZodError)

\* z.object({ code: LanguageCodeSchema, name: LanguageNameSchema })
LanguageObjectSchema(v) ==
    IF v.code \in LanguageCode /\ v.name \in LanguageName
    THEN Ok([code |-> v.code, name |-> v.name])
    ELSE Fail(ZodError)

\* object.or(code).or(name): the first option that accepts the input wins.
\* A string input carries a TLA+ string.
LanguageSchema(v) ==
    IF v.kind = "object" THEN LanguageObjectSchema(v)
    ELSE IF LanguageCodeSchema(v.value).ok THEN LanguageCodeSchema(v.value)
    ELSE LanguageNameSchema(v.value)

\* A slip: every string is lower-cased, whatever its length.
preprocessLowerCase(s) == Ok(toLowerCase(s))

\* preprocessStringLanguage, on a sequence of characters; value[0] of the
\* empty string is undefined and calling toUpperCase on it throws.
preprocessStringLanguage(s) ==
    IF Len(s) = 2 THEN Ok(toLowerCase(s))
    ELSE IF s = <<>> THEN Fail(TypeError)
    ELSE Ok(toUpperCase(SubSeq(s, 1, 1)) \o toLowerCase(SubSeq(s, 2, Len(s))))

\* z.preprocess(preprocessStringLanguage, z.string())
\*   .transform(LanguageSchema.parse).or(LanguageSchema)
\* A string input carries a sequence of characters.
StringOrLanguageSchema(v) ==
    IF v.kind = "string"
    THEN IF preprocessStringLanguage(v.value).ok
         THEN LanguageSchema(StrIn(Str(preprocessStringLanguage(v.value).value)))
         ELSE preprocessStringLanguage(v.value)
    ELSE LanguageSchema(v)

-----------------------------------------------------------------------------
(* Rich-text annotators (src/localization/utils.ts).                       *)

Kanji    == {"kanji"}              \* one kanji character
Cyrillic == {"cyr_d", "cyr_a"}     \* two Cyrillic letters

RubyOpen  == "<ruby>"
RubyClose == "</ruby>"
RpOpen    == "<rp>(</rp>"
RpClose   == "<rp>)</rp>"
RtPlain   == "<rt>"
RtPresentation == "<rt role=\"presentation\" aria-hidden=\"true\">"
RtClose   == "</rt>"

AnnotationError == "Error"

Letters == {LowerLetters[i] : i \in DOMAIN LowerLetters}
             \cup {UpperLetters[i] : i \in DOMAIN UpperLetters}

\* The characters natural's WordTokenizer keeps in a word: [A-Za-zА-Яа-я0-9_].
IsWordChar(c) == c \in Letters \cup Cyrillic

\* kuroshiro.convert(value, { mode: "furigana", to: "hiragana" }): every kanji
\* becomes a ruby element whose <rt> holds its reading.
RECURSIVE kuroshiroConvert(_)
kuroshiroConvert(s) ==
    IF s = <<>> THEN <<>>
    ELSE (IF Head(s) \in Kanji
          THEN <<RubyOpen, Head(s), RpOpen, RtPlain, "reading", RtClose, RpClose, RubyClose>>
          ELSE <<Head(s)>>) \o kuroshiroConvert(Tail(s))

\* String.prototype.replaceAll(pattern, replacement), pattern a non-empty string:
\* the occurrences are found left to right and do not overlap.
RECURSIVE replaceAll(_, _, _)
replaceAll(s, pat, rep) ==
    IF Len(s) < Len(pat) \/ pat = <<>> THEN s
    ELSE IF SubSeq(s, 1, Len(pat)) = pat
         THEN rep \o replaceAll(SubSeq(s, Len(pat) + 1, Len(s)), pat, rep)
         ELSE <<Head(s)>> \o replaceAll(Tail(s), pat, rep)

japanese(value) == replaceAll(kuroshiroConvert(value), <<RtPlain>>, <<RtPresentation>>)

passthrough(value) == <<>>

\* wordTokenizer.tokenize(value): the maximal runs of word characters, in order.
RECURSIVE tokenizeFrom(_, _)
tokenizeFrom(s, word) ==
    IF s = <<>> THEN (IF word = <<>> THEN <<>> ELSE <<word>>)
    ELSE IF IsWordChar(Head(s)) THEN tokenizeFrom(Tail(s), Append(word, Head(s)))
    ELSE (IF word = <<>> THEN <<>> ELSE <<word>>) \o tokenizeFrom(Tail(s), <<>>)

tokenize(value) == tokenizeFrom(value, <<>>)

\* [...new Set(result)]: the first occurrence of every element, in order.
RECURSIVE unique(_)
unique(ws) ==
    IF ws = <<>> THEN <<>>
    ELSE LET rest == unique(SubSeq(ws, 1, Len(ws) - 1))
             w    == ws[Len(ws)]
         IN IF \E i \in DOMAIN rest : rest[i] = w THEN rest ELSE Append(rest, w)

getUniqueWords(value) == unique(tokenize(value))

transliterateChar(c) == CASE c = "cyr_d" -> "d" [] c = "cyr_a" -> "a" [] OTHER -> c
transliterateRussian(w) == [i \in 1..Len(w) |-> transliterateChar(w[i])]

\* RubyTemplate.render({ original, transliteration })
RubyTemplate(original, transliteration) ==
    <<RubyOpen>> \o original \o <<RpOpen, RtPresentation>> \o transliteration
        \o <<RtClose, RpClose, RubyClose>>

toRussianRubyTransliteration(original) ==
    [value |-> original,
     annotation |-> RubyTemplate(original, transliterateRussian(original))]

RECURSIVE replaceWords(_, _)
replaceWords(result, words) ==
    IF words = <<>> THEN result
    ELSE replaceWords(replaceAll(result, Head(words).value, Head(words).annotation),
                      Tail(words))

russian(value) ==
    replaceWords(value, [i \in DOMAIN getUniqueWords(value) |->
                           toRussianRubyTransliteration(getUniqueWords(value)[i])])

PassthroughCodes == {"en", "es", "fr", "it", "ko", "pt", "zh"}

\* throw new Error(`There was an error getting the words from ${value}`)
getUniqueWordsThrows(value) ==
    [ok |-> FALSE, error |-> AnnotationError, cites |-> value]

\* A slip: without a result of the tokenizer the text is left as it is.
RichTextByLanguageCodeLenient(code, raw, tokenizerFails) ==
    CASE code \in PassthroughCodes -> Ok(passthrough(raw))
      [] code = "ja" -> Ok(japanese(raw))
      [] code = "ru" -> IF tokenizerFails THEN Ok(raw) ELSE Ok(russian(raw))
      [] OTHER -> Fail(TypeError)

\* RichTextByLanguageCode[code](raw).  The table has no entry for "xx": calling
\* the missing entry throws a TypeError.  tokenizerFails is the word
\* tokenizer's answer "no result", on which getUniqueWords throws.
RichTextByLanguageCode(code, raw, tokenizerFails) ==
    CASE code \in PassthroughCodes -> Ok(passthrough(raw))
      [] code = "ja" -> Ok(japanese(raw))
      [] code = "ru" -> IF tokenizerFails THEN getUniqueWordsThrows(raw)
                        ELSE Ok(russian(raw))
      [] OTHER -> Fail(TypeError)

-----------------------------------------------------------------------------
(* LocalizedText (src/localization/actions.ts).                            *)

\* LocalizedText.schema: raw is z.string().min(1).trim(), whose checks run in
\* the order written (the length check sees the untrimmed string); rich is
\* z.string().trim().default(""), an absent rich being the empty string here.
LocalizedTextSchema(in) ==
    IF Len(in.raw) < 1 THEN Fail(ZodError)
    ELSE IF ~LanguageSchema(in.language).ok THEN Fail(ZodError)
    ELSE Ok([raw |-> trim(in.raw), rich |-> trim(in.rich),
             language |-> LanguageSchema(in.language).value])

\* The input fromString builds: eld.detect(value).language || LanguageCode.XX
fromStringInput(value, detected) ==
    [raw |-> value, rich |-> <<>>,
     language |-> StrIn(IF detected = "" THEN "xx" ELSE detected)]

\* LocalizedText.fromString(value), the detector reporting `detected`.
LocalizedTextFromString(value, detected) ==
    LocalizedTextSchema(fromStringInput(value, detected))

\* LocalizedTextModelSchema: z.string().min(1).trim().transform(fromString)
\*   .or(LocalizedText.schema.transform(parseFromModel(LocalizedText))).
\* A string input carries the language the detector reports for it.
TextStr(value, detected) == [kind |-> "string", value |-> value, detected |-> detected]
TextObj(raw, rich, language) ==
    [kind |-> "object", raw |-> raw, rich |-> rich, language |-> language]

LocalizedTextModelSchema(in) ==
    IF in.kind = "string"
    THEN IF Len(in.value) < 1 THEN Fail(ZodError)
         ELSE LocalizedTextFromString(trim(in.value), in.detected)
    ELSE LocalizedTextSchema(in)

-----------------------------------------------------------------------------
(* TranslatableText, Paragraph, Chapter (src/localization/actions.ts,      *)
(* src/fanfictions/models.ts).                                             *)

NoLT == [raw |-> <<>>, rich |-> <<>>, language |-> [code |-> "", name |-> ""]]

\* A nullable TranslatableText: null, or { original, translations }.
NullTT == [isNull |-> TRUE, original |-> NoLT, translations |-> <<>>]
TTIn(original, translations) ==
    [isNull |-> FALSE, original |-> original, translations |-> translations]
NullIn == [isNull |-> TRUE]

\* TranslatableText.schema.transform(Model.parseFromModel(TranslatableText))
TranslatableTextSchema(in) ==
    IF ~LocalizedTextModelSchema(in.original).ok THEN Fail(ZodError)
    ELSE IF \E i \in DOMAIN in.translations :
               ~LocalizedTextModelSchema(in.translations[i]).ok
         THEN Fail(ZodError)
    ELSE Ok([isNull |-> FALSE,
             original |-> LocalizedTextModelSchema(in.original).value,
             translations |-> [i \in DOMAIN in.translations |->
                                 LocalizedTextModelSchema(in.translations[i]).value]])

\* TranslatableTextSchema.nullable().default(null)
NullableTranslatableTextSchema(in) ==
    IF in.isNull THEN Ok(NullTT) ELSE TranslatableTextSchema(in)

\* Paragraph.schema: the TranslatableText fields and index, an integer >= 0
\* (indexes are natural numbers here).
ParagraphIn(original, translations, index) ==
    [original |-> original, translations |-> translations, index |-> index]

ParagraphSchema(in) ==
    IF ~TranslatableTextSchema(in).ok THEN Fail(ZodError)
    ELSE Ok([alive |-> TRUE,
             original |-> TranslatableTextSchema(in).value.original,
             translations |-> TranslatableTextSchema(in).value.translations,
             index |-> in.index])

NoParagraph == [alive |-> FALSE, original |-> NoLT, translations |-> <<>>, index |-> 0]

\* Chapter.schema; the paragraphs of the input are parsed into Paragraph
\* instances, whose places in the heap are `ids`.
ChapterIn(title, summary, index, paragraphs) ==
    [title |-> title, summary |-> summary, index |-> index, paragraphs |-> paragraphs]

ChapterInputValid(in) ==
    /\ NullableTranslatableTextSchema(in.title).ok
    /\ NullableTranslatableTextSchema(in.summary).ok
    /\ \A i \in DOMAIN in.paragraphs : ParagraphSchema(in.paragraphs[i]).ok

ChapterSchema(in, ids) ==
    [alive |-> TRUE,
     title |-> NullableTranslatableTextSchema(in.title).value,
     summary |-> NullableTranslatableTextSchema(in.summary).value,
     index |-> in.index,
     paragraphs |-> ids]

NoChapter == [alive |-> FALSE, title |-> NullTT, summary |-> NullTT, index |-> 0,
              paragraphs |-> <<>>]

\* A slip: the annotation is dropped with the old language.
updateLanguageClearingRich(text, x) ==
    IF LanguageSchema(StrIn(x)).ok
    THEN [text EXCEPT !.language = LanguageSchema(StrIn(x)).value, !.rich = <<>>]
    ELSE text

\* Model.setProperty("language", x) as LocalizedText.updateLanguage(x) uses it:
\* the value is stored when the language schema accepts it, and the instance
\* is validated afterwards either way.
updateLanguage(text, x) ==
    IF LanguageSchema(StrIn(x)).ok
    THEN [text EXCEPT !.language = LanguageSchema(StrIn(x)).value]
    ELSE text

\* fixAuthorLanguage: an author name of undetermined language takes the
\* language of the fanfiction.
fixAuthorLanguage(author, language) ==
    IF author.language.code = "xx" THEN updateLanguage(author, language.code)
    ELSE author

\* An optional field of an input: absent, or given with a value.
Absent == [given |-> FALSE]
Given(v) == [given |-> TRUE, value |-> v]

\* A URL is a sequence of tokens: a scheme with its "//", then characters.
Schemes == {"https://", "http://"}
HostEnd == {"/", ":", "?", "#"}

\* z.string().url(): a scheme, and a host after it.
IsUrl(u) == Len(u) >= 2 /\ u[1] \in Schemes /\ u[2] \notin HostEnd \cup Schemes

RECURSIVE hostChars(_)
hostChars(u) ==
    IF u = <<>> \/ Head(u) \in HostEnd THEN <<>>
    ELSE <<Head(u)>> \o hostChars(Tail(u))

\* new URL(url).hostname: the host, lower-cased, without port and path.
hostname(u) == Str(toLowerCase(hostChars(Tail(u))))

\* A slip: the host of the URL replaces a source that was given.
addSourceAlways(value) == [value EXCEPT !.source = hostname(value.origin_url)]

\* addSource: the empty string is the only falsy string.
addSource(value) ==
    IF value.source = "" THEN [value EXCEPT !.source = hostname(value.origin_url)]
    ELSE value

\* Array.prototype.join(separator)
RECURSIVE join(_, _)
join(array, separator) ==
    IF array = <<>> THEN ""
    ELSE IF Len(array) = 1 THEN array[1]
    ELSE array[1] \o separator \o join(Tail(array), separator)

\* A slip: a relationship that was given is kept.
setRelationshipIfEmpty(value) ==
    IF Len(value.relationship_characters) > 0 /\ value.relationship = ""
    THEN [value EXCEPT !.relationship = join(value.relationship_characters, "/")]
    ELSE value

\* setRelationship
setRelationship(value) ==
    IF Len(value.relationship_characters) > 0
    THEN [value EXCEPT !.relationship = join(value.relationship_characters, "/")]
    ELSE value

\* The identifiers crypto.randomUUID() can return (the strings of UUID form).
Uuids == {"uuid-1", "uuid-2", "uuid-3"}

\* id of Fanfiction.schema.  src/fanfictions/models.ts: z.string(), a required
\* string.  src/lib/fanfiction.ts: z.string().uuid().default(uuid), where
\* `fresh` is what uuid() returns.
IdSchema(variant, id, fresh) ==
    IF variant = "fanfictions"
    THEN (IF id.given THEN Ok(id.value) ELSE Fail(ZodError))
    ELSE IF ~id.given THEN Ok(fresh)
    ELSE IF id.value \in Uuids THEN Ok(id.value)
    ELSE Fail(ZodError)

\* The fields id, origin_url, relationship_characters, relationship and source
\* of an input of Fanfiction.schema.
MetaIn(id, origin_url, source, relationship, relationship_characters) ==
    [id |-> id, origin_url |-> origin_url, source |-> source,
     relationship |-> relationship, relationship_characters |-> relationship_characters]

MetaInputValid(variant, in, fresh) ==
    /\ IdSchema(variant, in.id, fresh).ok
    /\ IsUrl(in.origin_url)
    /\ in.relationship_characters.given =>
          \A i \in DOMAIN in.relationship_characters.value :
             in.relationship_characters.value[i] # ""

\* z.object({...}) with its defaults, then .transform(addSource)
\* .transform(setRelationship).
MetaSchema(variant, in, fresh) ==
    setRelationship(addSource(
       [id |-> IdSchema(variant, in.id, fresh).value,
        origin_url |-> in.origin_url,
        source |-> IF in.source.given THEN in.source.value ELSE "",
        relationship |-> IF in.relationship.given THEN in.relationship.value ELSE "",
        relationship_characters |-> IF in.relationship_characters.given
                                    THEN in.relationship_characters.value ELSE <<>>]))

Url1 == <<"https://", "e", ".", "c", "/", "s">>
DefaultMeta == MetaIn(Given("f-1"), Url1, Absent, Absent, Absent)

\* Fanfiction.schema, the fields of the document model; t is new Date().  The
\* chapters of the input are parsed into Chapter instances (places 1, 2, ... of
\* the chapter heap), their paragraphs into Paragraph instances.
FanfictionIn(author, summary, title, language, chapters) ==
    [author |-> author, summary |-> summary, title |-> title, language |-> language,
     chapters |-> chapters, meta |-> DefaultMeta]

FanfictionInputValid(in) ==
    /\ LocalizedTextModelSchema(in.author).ok
    /\ TranslatableTextSchema(in.summary).ok
    /\ TranslatableTextSchema(in.title).ok
    /\ StringOrLanguageSchema(in.language).ok
    /\ MetaInputValid("fanfictions", in.meta, "")
    /\ \A i \in DOMAIN in.chapters : ChapterInputValid(in.chapters[i])

FanfictionSchema(in, t) ==
    [author |-> fixAuthorLanguage(LocalizedTextModelSchema(in.author).value,
                                  StringOrLanguageSchema(in.language).value),
     summary |-> TranslatableTextSchema(in.summary).value,
     title |-> TranslatableTextSchema(in.title).value,
     language |-> StringOrLanguageSchema(in.language).value,
     chapters |-> [i \in DOMAIN in.chapters |-> i],
     created_at |-> t,
     updated_at |-> t,
     id |-> MetaSchema("fanfictions", in.meta, "").id,
     origin_url |-> MetaSchema("fanfictions", in.meta, "").origin_url,
     source |-> MetaSchema("fanfictions", in.meta, "").source,
     relationship |-> MetaSchema("fanfictions", in.meta, "").relationship,
     relationship_characters |->
        MetaSchema("fanfictions", in.meta, "").relationship_characters]

\* How many paragraphs the chapters before the i-th one of the input have.
RECURSIVE ParagraphsBefore(_, _)
ParagraphsBefore(chapters, i) ==
    IF i <= 1 THEN 0
    ELSE ParagraphsBefore(chapters, i - 1) + Len(chapters[i - 1].paragraphs)

\* The Chapter instances new Fanfiction(in) creates, by place in the heap.
ConstructedChapter(in, c) ==
    ChapterSchema(in.chapters[c],
                  [j \in DOMAIN in.chapters[c].paragraphs |->
                     ParagraphsBefore(in.chapters, c) + j])

\* The Paragraph instances new Fanfiction(in) creates, each with its place.
ConstructedParagraphs(in) ==
    UNION {{<<ParagraphsBefore(in.chapters, c) + j,
              ParagraphSchema(in.chapters[c].paragraphs[j]).value>> :
                j \in DOMAIN in.chapters[c].paragraphs} : c \in DOMAIN in.chapters}

-----------------------------------------------------------------------------
(* The inputs the document operations are called with.                     *)

Latin == "a"

TextEn == TextStr(<<Latin>>, "en")
TextJa == TextObj(<<"kanji">>, <<>>, StrIn("ja"))
TextRu == TextObj(<<"cyr_d">>, <<>>, StrIn("ru"))
TextUndetermined == TextStr(<<Latin, SP>>, "")
TextEmpty == TextStr(<<>>, "")

\* An index that is no position of any sequence of the model.
StaleIndex == MaxChapters + MaxParagraphs

ParagraphInputs ==
    {ParagraphIn(TextJa, <<TextJa>>, StaleIndex),
     ParagraphIn(TextEn, <<>>, 0),
     ParagraphIn(TextEmpty, <<>>, 0)}

ChapterInputs ==
    {ChapterIn(NullIn, NullIn, 0, <<>>),
     ChapterIn(TTIn(TextUndetermined, <<>>), TTIn(TextJa, <<TextJa>>), StaleIndex,
               <<ParagraphIn(TextJa, <<>>, StaleIndex)>>),
     ChapterIn(NullIn, TTIn(TextEmpty, <<>>), 0, <<>>)}

FanfictionInputs ==
    {FanfictionIn(TextEn, TTIn(TextRu, <<TextJa>>), TTIn(TextJa, <<>>),
                  StrIn(<<"E", "N">>), <<>>),
     FanfictionIn(TextEn, TTIn(TextEn, <<>>), TTIn(TextJa, <<TextRu>>),
                  StrIn(<<"j", "a", "p", "a", "n", "e", "s", "e">>),
                  <<ChapterIn(NullIn, TTIn(TextJa, <<TextJa>>), 0,
                              <<ParagraphIn(TextEn, <<>>, 0),
                                ParagraphIn(TextJa, <<TextJa>>, 1)>>)>>)}

-----------------------------------------------------------------------------
(* The document: one Fanfiction, and the Chapter and Paragraph instances.  *)

ChapIds == 1..MaxChapters
ParIds  == 1..(MaxParagraphs + 1)
CascIds == {"c1"}

FreeChapters == {i \in ChapIds : ~chap[i].alive}
FreeParagraphs == {i \in ParIds : ~par[i].alive}

\* The n lowest free places of the paragraph heap, in order.
RECURSIVE LowestOf(_, _)
LowestOf(S, n) ==
    IF n = 0 \/ S = {} THEN <<>>
    ELSE LET m == CHOOSE x \in S : \A y \in S : x <= y
         IN <<m>> \o LowestOf(S \ {m}, n - 1)

Min(S) == CHOOSE x \in S : \A y \in S : x <= y

\* What the last addChapter / addParagraph / Chapter.parse / Paragraph.parse call
\* returned or threw: `value` is "this" (the instance the method was called on),
\* "instance" (a new instance, at place `id` of its heap) or the error thrown.
\* `written` is the index the call assigned to the plain input object it was
\* given, which the caller still holds afterwards.
Ret(op, ok, value, id) ==
    [op |-> op, ok |-> ok, value |-> value, id |-> id, written |-> Absent]
Wrote(r, index) == [r EXCEPT !.written = Given(index)]
NoneRet == Ret("none", TRUE, "none", 0)

IdleCascade == [pc |-> "idle", cursor |-> [stage |-> "start", ci |-> 0, pi |-> 0],
                target |-> [kind |-> "none", id |-> 0], pending |-> <<>>,
                error |-> "", result |-> "none", dirty |-> FALSE, updates |-> 0,
                resumed |-> 0, updatedAtStart |-> 0, atStart |-> <<>>]

\* A structural change of the document while a setRichTexts() call is under way.
MarkDirty == [k \in DOMAIN casc |->
                IF casc[k].pc = "idle" THEN casc[k] ELSE [casc[k] EXCEPT !.dirty = TRUE]]

\* A slip: the wrong timestamp is written.
triggerUpdateOfCreation(f, t) == [f EXCEPT !.created_at = t]

\* Fanfiction.triggerUpdate(): this.updated_at = new Date()
triggerUpdate(f, t) == [f EXCEPT !.updated_at = t]

\* A slip: the length after the push instead of the length before it.
NextIndexAfterPush(children) == Len(children) + 1

\* The index addParagraph / addChapter writes into the appended item:
\* this.paragraphs.length, this.chapters.length.
NextIndex(children) == Len(children)

-----------------------------------------------------------------------------
(* Paragraph.parse, Chapter.parse: instances that are not (yet) children.  *)

NewParagraph(in) ==
    /\ UNCHANGED <<langVars, textVars, ttVars, createVars, httpVars, enVars, fanfic, chap, now, casc, log>>
    /\ IF ParagraphSchema(in).ok
       THEN /\ FreeParagraphs # {}
            /\ par' = [par EXCEPT ![Min(FreeParagraphs)] = ParagraphSchema(in).value]
            /\ ret' = Ret("Paragraph.parse", TRUE, "instance", Min(FreeParagraphs))
       ELSE /\ par' = par
            /\ ret' = Ret("Paragraph.parse", FALSE, ZodError, 0)

NewChapter(in) ==
    /\ UNCHANGED <<langVars, textVars, ttVars, createVars, httpVars, enVars, fanfic, now, casc, log>>
    /\ IF ChapterInputValid(in)
       THEN LET ids == LowestOf(FreeParagraphs, Len(in.paragraphs))
                c   == Min(FreeChapters)
            IN /\ FreeChapters # {}
               /\ Len(ids) = Len(in.paragraphs)
               /\ par' = [i \in ParIds |->
                            IF \E j \in DOMAIN ids : ids[j] = i
                            THEN ParagraphSchema(
                                   in.paragraphs[CHOOSE j \in DOMAIN ids : ids[j] = i]).value
                            ELSE par[i]]
               /\ chap' = [chap EXCEPT ![c] = ChapterSchema(in, ids)]
               /\ ret' = Ret("Chapter.parse", TRUE, "instance", c)
       ELSE /\ UNCHANGED <<par, chap>>
            /\ ret' = Ret("Chapter.parse", FALSE, ZodError, 0)

-----------------------------------------------------------------------------
(* Chapter.addParagraph(paragraph), on the Chapter instance c.              *)

AddParagraphInstance(c, p) ==
    /\ par[p].alive
    /\ par' = [par EXCEPT ![p].index = NextIndex(chap[c].paragraphs)]
    /\ chap' = [chap EXCEPT ![c].paragraphs = Append(@, p)]
    /\ casc' = MarkDirty
    /\ ret' = Ret("addParagraph", TRUE, "this", c)

\* A slip: the new paragraph is put first in the sequence.
AddParagraphInputFirst(c, in) ==
    LET indexed == [in EXCEPT !.index = NextIndex(chap[c].paragraphs)]
    IN IF ParagraphSchema(indexed).ok
       THEN /\ FreeParagraphs # {}
            /\ par' = [par EXCEPT ![Min(FreeParagraphs)] = ParagraphSchema(indexed).value]
            /\ chap' = [chap EXCEPT ![c].paragraphs = <<Min(FreeParagraphs)>> \o @]
            /\ casc' = MarkDirty
            /\ ret' = Wrote(Ret("addParagraph", TRUE, "this", c), indexed.index)
       ELSE /\ UNCHANGED <<par, chap, casc>>
            /\ ret' = Wrote(Ret("addParagraph", FALSE, ZodError, c), indexed.index)

AddParagraphInput(c, in) ==
    LET indexed == [in EXCEPT !.index = NextIndex(chap[c].paragraphs)]
    IN IF ParagraphSchema(indexed).ok
       THEN /\ FreeParagraphs # {}
            /\ par' = [par EXCEPT ![Min(FreeParagraphs)] = ParagraphSchema(indexed).value]
            /\ chap' = [chap EXCEPT ![c].paragraphs = Append(@, Min(FreeParagraphs))]
            /\ casc' = MarkDirty
            /\ ret' = Wrote(Ret("addParagraph", TRUE, "this", c), indexed.index)
       ELSE /\ UNCHANGED <<par, chap, casc>>
            /\ ret' = Wrote(Ret("addParagraph", FALSE, ZodError, c), indexed.index)

AddParagraphOf(c, inputs) ==
    /\ chap[c].alive
    /\ Len(chap[c].paragraphs) < MaxParagraphs
    /\ UNCHANGED <<langVars, textVars, ttVars, createVars, httpVars, enVars, fanfic, now, log>>
    /\ \/ \E p \in ParIds : AddParagraphInstance(c, p)
       \/ \E in \in inputs : AddParagraphInput(c, in)

AddParagraph(c) == AddParagraphOf(c, ParagraphInputs)

-----------------------------------------------------------------------------
(* Fanfiction.addChapter(chapter).                                         *)

AddChapterInstance(c) ==
    /\ chap[c].alive
    /\ chap' = [chap EXCEPT ![c].index = NextIndex(fanfic.chapters)]
    /\ par' = par
    /\ fanfic' = triggerUpdate([fanfic EXCEPT !.chapters = Append(@, c)], now)
    /\ casc' = MarkDirty
    /\ ret' = Ret("addChapter", TRUE, "this", 0)

\* A slip: the timestamp is refreshed before the input is validated.
AddChapterInputUpdatingFirst(in) ==
    LET indexed == [in EXCEPT !.index = NextIndex(fanfic.chapters)]
        ids     == LowestOf(FreeParagraphs, Len(in.paragraphs))
        c       == Min(FreeChapters)
    IN IF ChapterInputValid(indexed)
       THEN /\ FreeChapters # {}
            /\ Len(ids) = Len(in.paragraphs)
            /\ par' = [i \in ParIds |->
                         IF \E j \in DOMAIN ids : ids[j] = i
                         THEN ParagraphSchema(
                                indexed.paragraphs[CHOOSE j \in DOMAIN ids : ids[j] = i]).value
                         ELSE par[i]]
            /\ chap' = [chap EXCEPT ![c] = ChapterSchema(indexed, ids)]
            /\ fanfic' = triggerUpdate([fanfic EXCEPT !.chapters = Append(@, c)], now)
            /\ casc' = MarkDirty
            /\ ret' = Wrote(Ret("addChapter", TRUE, "this", 0), indexed.index)
       ELSE /\ UNCHANGED <<par, chap, casc>>
            /\ fanfic' = triggerUpdate(fanfic, now)
            /\ ret' = Wrote(Ret("addChapter", FALSE, ZodError, 0), indexed.index)

AddChapterInput(in) ==
    LET indexed == [in EXCEPT !.index = NextIndex(fanfic.chapters)]
        ids     == LowestOf(FreeParagraphs, Len(in.paragraphs))
        c       == Min(FreeChapters)
    IN IF ChapterInputValid(indexed)
       THEN /\ FreeChapters # {}
            /\ Len(ids) = Len(in.paragraphs)
            /\ par' = [i \in ParIds |->
                         IF \E j \in DOMAIN ids : ids[j] = i
                         THEN ParagraphSchema(
                                indexed.paragraphs[CHOOSE j \in DOMAIN ids : ids[j] = i]).value
                         ELSE par[i]]
            /\ chap' = [chap EXCEPT ![c] = ChapterSchema(indexed, ids)]
            /\ fanfic' = triggerUpdate([fanfic EXCEPT !.chapters = Append(@, c)], now)
            /\ casc' = MarkDirty
            /\ ret' = Wrote(Ret("addChapter", TRUE, "this", 0), indexed.index)
       ELSE /\ UNCHANGED <<par, chap, fanfic, casc>>
            /\ ret' = Wrote(Ret("addChapter", FALSE, ZodError, 0), indexed.index)

AddChapterOf(inputs) ==
    /\ Len(fanfic.chapters) < MaxChapters
    /\ UNCHANGED <<langVars, textVars, ttVars, createVars, httpVars, enVars, now, log>>
    /\ \/ \E c \in ChapIds : AddChapterInstance(c)
       \/ \E in \in inputs : AddChapterInput(in)

AddChapter == AddChapterOf(ChapterInputs)

-----------------------------------------------------------------------------
(* Fanfiction.setRichTexts().  The call is suspended at every await; a     *)
(* step of the call runs from one await to the next.  `cursor` is the      *)
(* statement the call last executed.                                       *)

Pos(stage, ci, pi) == [stage |-> stage, ci |-> ci, pi |-> pi]
Loc(kind, id) == [kind |-> kind, id |-> id]

\* for (const chapter of this.chapters): the iterator reads the length of the
\* array when it is asked for the next element.
ChapterEnter(ci) ==
    IF ci <= Len(fanfic.chapters) THEN Pos("ctitle", ci, 0) ELSE Pos("end", 0, 0)

\* for (const paragraph of chapter.paragraphs)
ParagraphEnter(ci, pi) ==
    IF pi <= Len(chap[fanfic.chapters[ci]].paragraphs) THEN Pos("para", ci, pi)
    ELSE ChapterEnter(ci + 1)

\* A slip: the title before the summary.
NextPosTitleFirst(cur) ==
    CASE cur.stage = "start"    -> Pos("author", 0, 0)
      [] cur.stage = "author"   -> Pos("title", 0, 0)
      [] cur.stage = "title"    -> Pos("summary", 0, 0)
      [] cur.stage = "summary"  -> ChapterEnter(1)
      [] cur.stage = "ctitle"   -> Pos("csummary", cur.ci, 0)
      [] cur.stage = "csummary" -> ParagraphEnter(cur.ci, 1)
      [] cur.stage = "para"     -> ParagraphEnter(cur.ci, cur.pi + 1)
      [] OTHER                  -> Pos("end", 0, 0)

\* The statement that follows `cur` in setRichTexts().
NextPos(cur) ==
    CASE cur.stage = "start"    -> Pos("author", 0, 0)
      [] cur.stage = "author"   -> Pos("summary", 0, 0)
      [] cur.stage = "summary"  -> Pos("title", 0, 0)
      [] cur.stage = "title"    -> ChapterEnter(1)
      [] cur.stage = "ctitle"   -> Pos("csummary", cur.ci, 0)
      [] cur.stage = "csummary" -> ParagraphEnter(cur.ci, 1)
      [] cur.stage = "para"     -> ParagraphEnter(cur.ci, cur.pi + 1)
      [] OTHER                  -> Pos("end", 0, 0)

\* The object the statement at pos hands to setRichText(value).
TargetOf(pos) ==
    CASE pos.stage = "author"   -> Loc("author", 0)
      [] pos.stage = "summary"  -> Loc("summary", 0)
      [] pos.stage = "title"    -> Loc("title", 0)
      [] pos.stage = "ctitle"   -> Loc("ctitle", fanfic.chapters[pos.ci])
      [] pos.stage = "csummary" -> Loc("csummary", fanfic.chapters[pos.ci])
      [] pos.stage = "para"     ->
             Loc("para", chap[fanfic.chapters[pos.ci]].paragraphs[pos.pi])

\* setRichText(value) of src/fanfictions/models.ts: nothing for null, the
\* original of a TranslatableText, the LocalizedText itself otherwise.
HelperText(loc) ==
    CASE loc.kind = "author"   -> [isNull |-> FALSE, text |-> fanfic.author]
      [] loc.kind = "summary"  -> [isNull |-> FALSE, text |-> fanfic.summary.original]
      [] loc.kind = "title"    -> [isNull |-> FALSE, text |-> fanfic.title.original]
      [] loc.kind = "ctitle"   -> [isNull |-> chap[loc.id].title.isNull,
                                   text |-> chap[loc.id].title.original]
      [] loc.kind = "csummary" -> [isNull |-> chap[loc.id].summary.isNull,
                                   text |-> chap[loc.id].summary.original]
      [] loc.kind = "para"     -> [isNull |-> FALSE, text |-> par[loc.id].original]

\* this.rich = <the annotation>, on the text at loc.
FanficWithRich(loc, r) ==
    CASE loc.kind = "author"  -> [fanfic EXCEPT !.author.rich = r]
      [] loc.kind = "summary" -> [fanfic EXCEPT !.summary.original.rich = r]
      [] loc.kind = "title"   -> [fanfic EXCEPT !.title.original.rich = r]
      [] OTHER                -> fanfic
ChapWithRich(loc, r) ==
    CASE loc.kind = "ctitle"   -> [chap EXCEPT ![loc.id].title.original.rich = r]
      [] loc.kind = "csummary" -> [chap EXCEPT ![loc.id].summary.original.rich = r]
      [] OTHER                 -> chap
ParWithRich(loc, r) ==
    CASE loc.kind = "para" -> [par EXCEPT ![loc.id].original.rich = r]
      [] OTHER             -> par

\* The texts of a chapter in the order of the cascade.
ChapterTexts(c) ==
    (IF chap[c].title.isNull THEN <<>> ELSE <<Loc("ctitle", c)>>)
    \o (IF chap[c].summary.isNull THEN <<>> ELSE <<Loc("csummary", c)>>)
    \o [i \in 1..Len(chap[c].paragraphs) |-> Loc("para", chap[c].paragraphs[i])]

RECURSIVE ChaptersTexts(_)
ChaptersTexts(ci) ==
    IF ci > Len(fanfic.chapters) THEN <<>>
    ELSE ChapterTexts(fanfic.chapters[ci]) \o ChaptersTexts(ci + 1)

\* The texts of the document in the order the claim gives.
CascadeOrder ==
    <<Loc("author", 0), Loc("summary", 0), Loc("title", 0)>> \o ChaptersTexts(1)

\* A slip: the error of an annotation is caught and the call goes on.
Swallowed(me, pos, loc, error) ==
    [me EXCEPT !.pc = "next", !.cursor = pos, !.target = loc]

\* An annotation throws or rejects: nothing in setRichTexts() catches it, the
\* await rethrows and the call rejects with that error.
Rejected(me, pos, loc, error) ==
    [me EXCEPT !.pc = "failed", !.cursor = pos, !.target = loc, !.error = error]

Visit(k, loc, outcome, error) ==
    [call |-> k, target |-> loc, outcome |-> outcome, error |-> error]

\* One step of the call k: from the start of the call or from a resumed await
\* to the next await, to the rejection or to the return.
SetRichTextsStep(k) ==
    /\ casc[k].pc \in {"idle", "next"}
    /\ UNCHANGED <<langVars, textVars, ttVars, createVars, httpVars, enVars, chap, par, now, ret>>
    /\ LET me  == IF casc[k].pc = "idle"
                  THEN [casc[k] EXCEPT !.updatedAtStart = fanfic.updated_at,
                                       !.atStart = CascadeOrder]
                  ELSE casc[k]
           pos == NextPos(casc[k].cursor)
       IN IF pos.stage = "end"
          THEN /\ fanfic' = triggerUpdate(fanfic, now)
               /\ casc' = [casc EXCEPT ![k] = [me EXCEPT !.pc = "done", !.cursor = pos,
                                                         !.result = "this",
                                                         !.updates = @ + 1]]
               /\ log' = log
          ELSE LET loc == TargetOf(pos)
                   v   == HelperText(loc)
               IN /\ fanfic' = fanfic
                  /\ IF v.isNull
                     THEN /\ casc' = [casc EXCEPT ![k] = [me EXCEPT !.pc = "next",
                                                                   !.cursor = pos]]
                          /\ log' = log
                     ELSE IF v.text.rich # <<>>
                     THEN /\ casc' = [casc EXCEPT ![k] = [me EXCEPT !.pc = "next",
                                                                   !.cursor = pos]]
                          /\ log' = Append(log, Visit(k, loc, "skipped", ""))
                     ELSE \E tokenizerFails \in BOOLEAN :
                            LET r == RichTextByLanguageCode(v.text.language.code,
                                                            v.text.raw, tokenizerFails)
                            IN IF r.ok
                               THEN /\ casc' = [casc EXCEPT ![k] =
                                                  [me EXCEPT !.pc = "await", !.cursor = pos,
                                                             !.target = loc,
                                                             !.pending = r.value]]
                                    /\ log' = Append(log, Visit(k, loc, "invoked", ""))
                               ELSE /\ casc' = [casc EXCEPT ![k] =
                                                  Rejected(me, pos, loc, r.error)]
                                    /\ log' = Append(log, Visit(k, loc, "failed", r.error))

\* The annotator's promise resolves: LocalizedText.setRichText assigns rich.
SetRichTextsResume(k) ==
    /\ casc[k].pc = "await"
    /\ fanfic' = FanficWithRich(casc[k].target, casc[k].pending)
    /\ chap' = ChapWithRich(casc[k].target, casc[k].pending)
    /\ par' = ParWithRich(casc[k].target, casc[k].pending)
    /\ casc' = [casc EXCEPT ![k].pc = "next", ![k].pending = <<>>,
                            ![k].resumed = @ + 1]
    /\ UNCHANGED <<langVars, textVars, ttVars, createVars, httpVars, enVars, now, log, ret>>

\* Time passes.
Tick ==
    /\ now < MaxClock
    /\ now' = now + 1
    /\ UNCHANGED <<langVars, textVars, ttVars, createVars, httpVars, enVars, fanfic, chap, par, casc, log, ret>>

-----------------------------------------------------------------------------
(* Specification of the document.                                          *)

\* prev: the Language a first resolution gave, when the input of this one is
\* its name or its code.
NoPrev == [set |-> FALSE, by |-> "", value |-> [code |-> "", name |-> ""]]
NoLangIn == [schema |-> "none", input |-> StrIn(""), prev |-> NoPrev]
NoText == [exists |-> FALSE, raw |-> <<>>, rich |-> <<>>,
           language |-> [code |-> "", name |-> ""]]
TextOut(op, ok, error, raw, detected, langOk) ==
    [op |-> op, ok |-> ok, error |-> error, raw |-> raw, detected |-> detected,
     langOk |-> langOk, translations |-> <<>>, cites |-> <<>>]
NoTextOut == TextOut("none", TRUE, "", <<>>, "", TRUE)
\* interrupted: another operation acted on the instance during the await.
IdleCall == [pc |-> "idle", pending |-> <<>>, richBefore |-> <<>>, interrupted |-> FALSE]
\* cites: the text the message of the error quotes.
\* calls: the setRichText() calls completed in succession on the instance, no
\* other operation on it from the start of the first to the end of the last;
\* invoked, assigned, richBefore, error: what the last of them did;
\* tokenizerFails: the word tokenizer's answer for the raw text of the instance.
Hist(calls, invoked, assigned, richBefore, error, tokenizerFails) ==
    [calls |-> calls, invoked |-> invoked, assigned |-> assigned,
     richBefore |-> richBefore, error |-> error, tokenizerFails |-> tokenizerFails]
NoHist == Hist(0, FALSE, FALSE, <<>>, "", FALSE)

LangIdle == langIn = NoLangIn /\ langOut = Fail("none")

\* The heap of LocalizedText instances a TranslatableText refers to: place 0 is
\* null, a place that is not alive holds no instance yet.
TextIds == 1..MaxTexts
NoInstance == [alive |-> FALSE, raw |-> <<>>, rich |-> <<>>,
               language |-> [code |-> "", name |-> ""]]
NoTranslatable == [exists |-> FALSE, original |-> NoLT, translations |-> <<>>]
NoTextInput == [raw |-> <<>>, rich |-> <<>>, language |-> StrIn("")]
\* Outcome of a TranslatableText operation: `found` and `list` are what a lookup
\* for `arg` returned (0 is null), `passed` the instance handed to
\* addTranslation (0 when a plain input was), `input` that plain input.
TtOut(op, ok, arg, found, list, passed, input) ==
    [op |-> op, ok |-> ok, arg |-> arg, found |-> found, list |-> list,
     passed |-> passed, input |-> input]
NoTtOut == TtOut("none", TRUE, "", 0, <<>>, 0, NoTextInput)
TranslationsIdle ==
    /\ tt = NoTranslatable
    /\ texts = [i \in TextIds |-> NoInstance]
    /\ ttOut = NoTtOut
CreateIdle == made = <<>> /\ pmade = <<>>
\* The heap of HttpRequest instances and that of their Headers objects; a
\* header that is not set has the value "" (Headers.get returns null).
ReqIds == 1..MaxRequests
HeaderNames == {"user-agent", "content-type"}
EmptyHeaders == [n \in HeaderNames |-> ""]
NoRequest == [alive |-> FALSE, path |-> "", origin |-> "", method |-> "", json |-> "",
              headers |-> 0]
NoRequests == [i \in ReqIds |-> NoRequest]
NoHeaders == [i \in ReqIds |-> EmptyHeaders]
\* An HttpClient call: where it is, its input, the interceptors it runs, the
\* response fetch gave, what it did so far (log) and how it ended (out).
NoResponse == [kind |-> "none", ok |-> FALSE, status |-> 0, json |-> FALSE,
               readable |-> FALSE, body |-> ""]
NoOutcome == [kind |-> "none", error |-> "", status |-> 0, body |-> ""]
IdleClient == [pc |-> "idle", variant |-> "", in |-> <<>>, request |-> <<>>,
               response |-> <<>>, i |-> 0, res |-> NoResponse, log |-> <<>>,
               out |-> NoOutcome]
\* The setEnglishTranslation calls made on the TranslatableText, in the order
\* they were made, and how often the translator was called and a translation
\* was appended.
NoCalls == [calls |-> <<>>, translated |-> 0, appended |-> 0]
HttpIdle == reqs = NoRequests /\ hdrs = NoHeaders /\ http = IdleClient
EnIdle == en = NoCalls
TextIdle == lt = NoText /\ ltOut = NoTextOut /\ ltCall = IdleCall /\ ltHist = NoHist

\* The state after new Fanfiction(in) at time 0.
Constructed(in) ==
    /\ FanfictionInputValid(in)
    /\ fanfic = FanfictionSchema(in, 0)
    /\ chap = [c \in ChapIds |-> IF c \in DOMAIN in.chapters
                                 THEN ConstructedChapter(in, c) ELSE NoChapter]
    /\ par = [p \in ParIds |->
                IF \E e \in ConstructedParagraphs(in) : e[1] = p
                THEN (CHOOSE e \in ConstructedParagraphs(in) : e[1] = p)[2]
                ELSE NoParagraph]

Init ==
    /\ LangIdle
    /\ TextIdle
    /\ TranslationsIdle
    /\ CreateIdle
    /\ HttpIdle
    /\ EnIdle
    /\ now = 0
    /\ \E in \in FanfictionInputs : Constructed(in)
    /\ casc = [k \in CascIds |-> IdleCascade]
    /\ log = <<>>
    /\ ret = NoneRet

Next ==
    \/ \E c \in ChapIds : AddParagraph(c)
    \/ AddChapter
    \/ \E k \in CascIds : SetRichTextsStep(k)
    \/ \E k \in CascIds : SetRichTextsResume(k)
    \/ Tick

Spec == Init /\ [][Next]_vars

-----------------------------------------------------------------------------
(* Specification of the assembly of a document: a Fanfiction constructed   *)
(* without chapters, Chapter instances constructed without paragraphs, and  *)
(* the children added by addChapter and addParagraph, as instances built    *)
(* beforehand or as plain inputs.                                           *)

EmptyChapterInputs == {in \in ChapterInputs : in.paragraphs = <<>>}
AssemblyParagraphInputs == {in \in ParagraphInputs : in.original # TextEn}

InitAssembly ==
    /\ LangIdle
    /\ TextIdle
    /\ TranslationsIdle
    /\ CreateIdle
    /\ HttpIdle
    /\ EnIdle
    /\ now = 0
    /\ \E in \in FanfictionInputs : in.chapters = <<>> /\ Constructed(in)
    /\ casc = [k \in CascIds |-> IdleCascade]
    /\ log = <<>>
    /\ ret = NoneRet

NextAssembly ==
    \/ \E in \in AssemblyParagraphInputs : NewParagraph(in)
    \/ \E in \in EmptyChapterInputs : NewChapter(in)
    \/ \E c \in ChapIds : AddParagraphOf(c, AssemblyParagraphInputs)
    \/ AddChapterOf(EmptyChapterInputs)

SpecAssembly == InitAssembly /\ [][NextAssembly]_vars

-----------------------------------------------------------------------------
(* Specification of the language schemas: every input is parsed.           *)

LanguageStrings ==
    LanguageCode \cup LanguageName \cup {"de", "German", "", "EN", "english", "th"}

LanguageObjects ==
    {ObjIn(c, n) : c \in LanguageCode \cup {"de", ""},
                   n \in LanguageName \cup {"German", ""}}

\* Strings as a caller of StringOrLanguageSchema writes them.
LanguageSpellings ==
    {<<"e", "n">>, <<"E", "N">>, <<"J", "a">>, <<"x", "x">>, <<"d", "e">>, <<"T", "H">>,
     <<"J", "a", "p", "a", "n", "e", "s", "e">>, <<"j", "a", "p", "a", "n", "e", "s", "e">>,
     <<"J", "A", "P", "A", "N", "E", "S", "E">>, <<"r", "U", "S", "S", "I", "A", "N">>,
     <<"G", "e", "r", "m", "a", "n">>, <<"t", "h", "a", "i">>, <<"e">>, <<>>,
     <<"e", "n", SP>>}

ParseLanguage(v) ==
    /\ langIn' = [schema |-> "LanguageSchema", input |-> v, prev |-> NoPrev]
    /\ langOut' = LanguageSchema(v)
    /\ UNCHANGED <<textVars, docVars, ttVars, createVars, httpVars, enVars>>

\* LanguageSchema.parse(L.name) / LanguageSchema.parse(L.code), L the Language
\* the last LanguageSchema.parse of a string returned.
ResolveAgain(by) ==
    /\ langIn.schema = "LanguageSchema"
    /\ langIn.input.kind = "string"
    /\ ~langIn.prev.set
    /\ langOut.ok
    /\ LET v == StrIn(IF by = "name" THEN langOut.value.name ELSE langOut.value.code)
       IN /\ langIn' = [schema |-> "LanguageSchema", input |-> v,
                        prev |-> [set |-> TRUE, by |-> by, value |-> langOut.value]]
          /\ langOut' = LanguageSchema(v)
    /\ UNCHANGED <<textVars, docVars, ttVars, createVars, httpVars, enVars>>

ParseStringOrLanguage(v) ==
    /\ langIn' = [schema |-> "StringOrLanguageSchema", input |-> v, prev |-> NoPrev]
    /\ langOut' = StringOrLanguageSchema(v)
    /\ UNCHANGED <<textVars, docVars, ttVars, createVars, httpVars, enVars>>

DocIdle ==
    /\ now = 0
    /\ \E in \in FanfictionInputs : in.chapters = <<>> /\ Constructed(in)
    /\ casc = [k \in CascIds |-> IdleCascade]
    /\ log = <<>>
    /\ ret = NoneRet

InitLang == LangIdle /\ TextIdle /\ DocIdle /\ TranslationsIdle /\ CreateIdle
                /\ HttpIdle /\ EnIdle

NextLang ==
    \/ \E s \in LanguageStrings : ParseLanguage(StrIn(s))
    \/ \E v \in LanguageObjects : ParseLanguage(v)
    \/ \E s \in LanguageSpellings : ParseStringOrLanguage(StrIn(s))
    \/ \E v \in LanguageObjects : ParseStringOrLanguage(v)
    \/ \E by \in {"name", "code"} : ResolveAgain(by)

SpecLang == InitLang /\ [][NextLang]_vars

-----------------------------------------------------------------------------
(* Specification of one LocalizedText: construction, fromString,           *)
(* setRichText() and updateLanguage().                                     *)

MaxCalls == 2     \* setRichText() calls observed in succession

RawChars == {SP, Latin, "kanji", "cyr_d"}

RECURSIVE StringsUpTo(_)
StringsUpTo(n) ==
    IF n = 0 THEN {<<>>}
    ELSE StringsUpTo(n - 1) \cup
         {Append(s, c) : s \in {t \in StringsUpTo(n - 1) : Len(t) = n - 1}, c \in RawChars}

RawStrings == StringsUpTo(MaxRawLen)
RichInputs == {<<>>, <<SP, Latin>>}
TextLanguageInputs ==
    {StrIn(c) : c \in LanguageCode \cup {"de", "Korean"}} \cup {ObjIn("zh", "Chinese")}

\* What eld.detect(value).language can be: a code of the registry, the code of
\* a language the registry does not have, or nothing.
DetectorCodes == (LanguageCode \ {"xx"}) \cup {"de", ""}

\* if (!this.rich): the empty string is the only falsy string.
AnnotateAlways(text) == TRUE
NeedsRichText(text) == text.rich = <<>>

Instance(v) == [exists |-> TRUE, raw |-> v.raw, rich |-> v.rich, language |-> v.language]

\* new LocalizedText(in)
Construct(in) ==
    /\ ~lt.exists
    /\ ltOut.op \in {"none", "release"}
    /\ ltCall.pc = "idle"
    /\ \E tokenizerFails \in BOOLEAN :
          ltHist' = Hist(0, FALSE, FALSE, <<>>, "", tokenizerFails)
    /\ IF LocalizedTextSchema(in).ok
       THEN /\ lt' = Instance(LocalizedTextSchema(in).value)
            /\ ltOut' = TextOut("construct", TRUE, "", in.raw, "", TRUE)
       ELSE /\ lt' = NoText
            /\ ltOut' = TextOut("construct", FALSE, ZodError, in.raw, "",
                                LanguageSchema(in.language).ok)
    /\ UNCHANGED <<ltCall, langVars, docVars, ttVars, createVars, httpVars, enVars>>

\* LocalizedText.fromString(value), the detector reporting `detected`.
FromString(value, detected) ==
    /\ ~lt.exists
    /\ ltOut.op \in {"none", "release"}
    /\ ltCall.pc = "idle"
    /\ \E tokenizerFails \in BOOLEAN :
          ltHist' = Hist(0, FALSE, FALSE, <<>>, "", tokenizerFails)
    /\ IF LocalizedTextFromString(value, detected).ok
       THEN /\ lt' = Instance(LocalizedTextFromString(value, detected).value)
            /\ ltOut' = TextOut("fromString", TRUE, "", value, detected, TRUE)
       ELSE /\ lt' = NoText
            /\ ltOut' = TextOut("fromString", FALSE, ZodError, value, detected,
                                LanguageSchema(fromStringInput(value, detected).language).ok)
    /\ UNCHANGED <<ltCall, langVars, docVars, ttVars, createVars, httpVars, enVars>>

\* TranslatableText.fromString(value): LocalizedText.fromString(value) is handed
\* to the constructor as original, and parsed again by the schema.
TranslatableTextFromString(value, detected) ==
    IF ~LocalizedTextFromString(value, detected).ok THEN Fail(ZodError)
    ELSE LET o == LocalizedTextFromString(value, detected).value
         IN TranslatableTextSchema(
                TTIn(TextObj(o.raw, o.rich, ObjIn(o.language.code, o.language.name)),
                     <<>>))

\* The instance under test is the original of the TranslatableText made.
TranslatableFromString(value, detected) ==
    /\ ~lt.exists
    /\ ltOut.op \in {"none", "release"}
    /\ ltCall.pc = "idle"
    /\ \E tokenizerFails \in BOOLEAN :
          ltHist' = Hist(0, FALSE, FALSE, <<>>, "", tokenizerFails)
    /\ IF TranslatableTextFromString(value, detected).ok
       THEN /\ lt' = Instance(TranslatableTextFromString(value, detected).value.original)
            /\ ltOut' = [TextOut("TranslatableText.fromString", TRUE, "", value,
                                 detected, TRUE)
                           EXCEPT !.translations =
                             TranslatableTextFromString(value, detected).value.translations]
       ELSE /\ lt' = NoText
            /\ ltOut' = TextOut("TranslatableText.fromString", FALSE, ZodError, value,
                                detected,
                                LanguageSchema(fromStringInput(value, detected).language).ok)
    /\ UNCHANGED <<ltCall, langVars, docVars, ttVars, createVars, httpVars, enVars>>

\* LocalizedText.setRichText(), up to its await, its return or its rejection.
SetRichTextCall ==
    /\ lt.exists
    /\ ltCall.pc = "idle"
    /\ ltHist.calls < MaxCalls
    /\ UNCHANGED <<lt, langVars, docVars, ttVars, createVars, httpVars, enVars>>
    /\ IF NeedsRichText(lt)
       THEN LET r == RichTextByLanguageCode(lt.language.code, lt.raw,
                                            ltHist.tokenizerFails)
            IN IF r.ok
               THEN /\ ltCall' = [pc |-> "await", pending |-> r.value,
                                  richBefore |-> lt.rich, interrupted |-> FALSE]
                    /\ UNCHANGED <<ltHist, ltOut>>
               ELSE /\ ltCall' = ltCall
                    /\ ltHist' = Hist(ltHist.calls + 1, r.error # TypeError, FALSE,
                                      lt.rich, r.error, ltHist.tokenizerFails)
                    /\ ltOut' = [TextOut("setRichText", FALSE, r.error, lt.raw, "", TRUE)
                                   EXCEPT !.cites = IF r.error = AnnotationError
                                                    THEN r.cites ELSE <<>>]
       ELSE /\ ltCall' = ltCall
            /\ ltHist' = Hist(ltHist.calls + 1, FALSE, FALSE, lt.rich, "",
                              ltHist.tokenizerFails)
            /\ ltOut' = TextOut("setRichText", TRUE, "", lt.raw, "", TRUE)

\* The annotator's promise resolves: this.rich = <the annotation>.
SetRichTextResume ==
    /\ ltCall.pc = "await"
    /\ lt' = [lt EXCEPT !.rich = ltCall.pending]
    /\ ltCall' = IdleCall
    /\ ltHist' = Hist(IF ltCall.interrupted THEN 0 ELSE ltHist.calls + 1, TRUE, TRUE,
                      ltCall.richBefore, "", ltHist.tokenizerFails)
    /\ ltOut' = TextOut("setRichText", TRUE, "", lt.raw, "", TRUE)
    /\ UNCHANGED <<langVars, docVars, ttVars, createVars, httpVars, enVars>>

\* LocalizedText.updateLanguage(x): setProperty, then validate(), which parses
\* the instance with LocalizedText.schema and throws when it does not pass.
UpdateLanguage(x) ==
    /\ lt.exists
    /\ lt' = [updateLanguage(lt, x) EXCEPT !.exists = TRUE]
    /\ ltHist' = Hist(0, FALSE, FALSE, <<>>, "", ltHist.tokenizerFails)
    /\ ltOut' = IF Len(lt.raw) < 1
                THEN TextOut("updateLanguage", FALSE, ZodError, lt.raw, "",
                             LanguageSchema(StrIn(x)).ok)
                ELSE TextOut("updateLanguage", TRUE, "", lt.raw, "",
                             LanguageSchema(StrIn(x)).ok)
    /\ ltCall' = [ltCall EXCEPT !.interrupted = (ltCall.pc = "await")]
    /\ UNCHANGED <<langVars, docVars, ttVars, createVars, httpVars, enVars>>

\* LocalizedText.updateLanguage(x) of the class that assigns
\* LanguageSchema.parse(x) to the field: the parse throws on a value the
\* schema refuses and nothing is assigned; nothing is validated afterwards.
UpdateLanguageParse(x) ==
    /\ lt.exists
    /\ lt' = IF LanguageSchema(StrIn(x)).ok
             THEN [lt EXCEPT !.language = LanguageSchema(StrIn(x)).value]
             ELSE lt
    /\ ltHist' = Hist(0, FALSE, FALSE, <<>>, "", ltHist.tokenizerFails)
    /\ ltOut' = IF LanguageSchema(StrIn(x)).ok
                THEN TextOut("updateLanguage", TRUE, "", lt.raw, "", TRUE)
                ELSE TextOut("updateLanguage", FALSE, ZodError, lt.raw, "", FALSE)
    /\ ltCall' = [ltCall EXCEPT !.interrupted = (ltCall.pc = "await")]
    /\ UNCHANGED <<langVars, docVars, ttVars, createVars, httpVars, enVars>>

\* The caller drops the instance (or the error of a failed construction) and
\* goes on with another text.
Release ==
    /\ ltOut.op # "none"
    /\ ltCall.pc = "idle"
    /\ lt' = NoText
    /\ ltOut' = TextOut("release", TRUE, "", <<>>, "", TRUE)
    /\ ltHist' = NoHist
    /\ UNCHANGED <<ltCall, langVars, docVars, ttVars, createVars, httpVars, enVars>>

\* A code and a name of the registry, and a value that is neither.
UpdateInputs == {"ja", "English", "de"}

InitText == LangIdle /\ TextIdle /\ DocIdle /\ TranslationsIdle /\ CreateIdle
                /\ HttpIdle /\ EnIdle

NextText ==
    \/ \E in \in [raw : RawStrings, rich : RichInputs, language : TextLanguageInputs] :
          Construct(in)
    \/ \E value \in RawStrings, detected \in DetectorCodes : FromString(value, detected)
    \/ \E value \in RawStrings, detected \in DetectorCodes :
          TranslatableFromString(value, detected)
    \/ SetRichTextCall
    \/ SetRichTextResume
    \/ \E x \in UpdateInputs : UpdateLanguage(x)
    \/ \E x \in UpdateInputs : UpdateLanguageParse(x)
    \/ Release

SpecText == InitText /\ [][NextText]_vars

-----------------------------------------------------------------------------
(* Specification of a TranslatableText (src/localization/actions.ts): one   *)
(* instance, its translations held as references to LocalizedText           *)
(* instances, LocalizedText instances built beforehand, addTranslation and  *)
(* the four lookups.                                                        *)

TranslatableInputs ==
    {TTIn(TextJa, <<>>),
     TTIn(TextEn, <<TextObj(<<Latin>>, <<>>, StrIn("en")), TextJa>>)}

TranslationInputs ==
    {[raw |-> <<Latin>>, rich |-> <<>>, language |-> StrIn("en")],
     [raw |-> <<"kanji">>, rich |-> <<>>, language |-> StrIn("Japanese")],
     [raw |-> <<>>, rich |-> <<>>, language |-> StrIn("en")],
     [raw |-> <<Latin>>, rich |-> <<>>, language |-> StrIn("de")]}

LookupCodes == {"en", "ja", "ko"}
LookupNames == {"English", "Japanese", "Korean"}

FreeTexts == {i \in TextIds : ~texts[i].alive}
Alive(text) == [alive |-> TRUE, raw |-> text.raw, rich |-> text.rich,
                language |-> text.language]

\* new TranslatableText(in): the translations are parsed into LocalizedText
\* instances, here at the places 1, 2, ... of the heap.
ConstructedTranslatable(in) ==
    /\ TranslatableTextSchema(in).ok
    /\ tt = [exists |-> TRUE,
             original |-> TranslatableTextSchema(in).value.original,
             translations |-> [i \in DOMAIN in.translations |-> i]]
    /\ texts = [i \in TextIds |->
                  IF i \in DOMAIN in.translations
                  THEN Alive(TranslatableTextSchema(in).value.translations[i])
                  ELSE NoInstance]
    /\ ttOut = NoTtOut

\* new LocalizedText(in), kept by the caller.
NewLocalizedText(in) ==
    /\ LocalizedTextSchema(in).ok
    /\ FreeTexts # {}
    /\ texts' = [texts EXCEPT ![Min(FreeTexts)] = Alive(LocalizedTextSchema(in).value)]
    /\ ttOut' = TtOut("new LocalizedText", TRUE, "", 0, <<>>, Min(FreeTexts), in)
    /\ UNCHANGED <<tt, langVars, textVars, docVars, createVars, httpVars, enVars>>

\* A slip: the new element is put first.
unshift(array, x) == <<x>> \o array

\* Array.prototype.push
push(array, x) == Append(array, x)

\* addTranslation(translation), translation instanceof LocalizedText.
AddTranslationInstance(id) ==
    /\ texts[id].alive
    /\ tt' = [tt EXCEPT !.translations = push(@, id)]
    /\ texts' = texts
    /\ ttOut' = TtOut("addTranslation", TRUE, "", 0, <<>>, id, NoTextInput)

\* addTranslation(translation), translation a plain input:
\* this.translations.push(new LocalizedText(translation)); the constructor
\* throws when the input does not pass the schema.
AddTranslationInput(in) ==
    IF LocalizedTextSchema(in).ok
    THEN /\ FreeTexts # {}
         /\ texts' = [texts EXCEPT
                        ![Min(FreeTexts)] = Alive(LocalizedTextSchema(in).value)]
         /\ tt' = [tt EXCEPT !.translations = push(@, Min(FreeTexts))]
         /\ ttOut' = TtOut("addTranslation", TRUE, "", 0, <<>>, 0, in)
    ELSE /\ UNCHANGED <<tt, texts>>
         /\ ttOut' = TtOut("addTranslation", FALSE, ZodError, 0, <<>>, 0, in)

AddTranslation ==
    /\ tt.exists
    /\ Len(tt.translations) < MaxTranslations
    /\ UNCHANGED <<langVars, textVars, docVars, createVars, httpVars, enVars>>
    /\ \/ \E id \in TextIds : AddTranslationInstance(id)
       \/ \E in \in TranslationInputs : AddTranslationInput(in)

Undefined == [defined |-> FALSE, id |-> 0]
Null == 0

\* A slip: the last match instead of the first.
RECURSIVE findLast(_, _, _)
findLast(array, field, key) ==
    IF array = <<>> THEN Undefined
    ELSE IF texts[array[Len(array)]].language[field] = key
         THEN [defined |-> TRUE, id |-> array[Len(array)]]
         ELSE findLast(SubSeq(array, 1, Len(array) - 1), field, key)

\* this.translations.find((translation) => translation.language[field] === key)
RECURSIVE find(_, _, _)
find(array, field, key) ==
    IF array = <<>> THEN Undefined
    ELSE IF texts[Head(array)].language[field] = key
         THEN [defined |-> TRUE, id |-> Head(array)]
         ELSE find(Tail(array), field, key)

\* this.translations.filter((translation) => translation.language[field] === key)
RECURSIVE filter(_, _, _)
filter(array, field, key) ==
    IF array = <<>> THEN <<>>
    ELSE (IF texts[Head(array)].language[field] = key THEN <<Head(array)>> ELSE <<>>)
         \o filter(Tail(array), field, key)

\* result || null: an instance is an object, and every object is truthy.
orNull(result) == IF result.defined THEN result.id ELSE Null

GetTranslationByCode(code) ==
    /\ tt.exists
    /\ ttOut' = TtOut("getTranslationByCode", TRUE, code,
                      orNull(find(tt.translations, "code", code)), <<>>, 0, NoTextInput)
    /\ UNCHANGED <<tt, texts, langVars, textVars, docVars, createVars, httpVars, enVars>>

GetTranslationsByCode(code) ==
    /\ tt.exists
    /\ ttOut' = TtOut("getTranslationsByCode", TRUE, code, 0,
                      filter(tt.translations, "code", code), 0, NoTextInput)
    /\ UNCHANGED <<tt, texts, langVars, textVars, docVars, createVars, httpVars, enVars>>

GetTranslationByName(name) ==
    /\ tt.exists
    /\ ttOut' = TtOut("getTranslationByName", TRUE, name,
                      orNull(find(tt.translations, "name", name)), <<>>, 0, NoTextInput)
    /\ UNCHANGED <<tt, texts, langVars, textVars, docVars, createVars, httpVars, enVars>>

GetTranslationsByName(name) ==
    /\ tt.exists
    /\ ttOut' = TtOut("getTranslationsByName", TRUE, name, 0,
                      filter(tt.translations, "name", name), 0, NoTextInput)
    /\ UNCHANGED <<tt, texts, langVars, textVars, docVars, createVars, httpVars, enVars>>

InitTranslations ==
    /\ LangIdle
    /\ TextIdle
    /\ DocIdle
    /\ CreateIdle
    /\ HttpIdle
    /\ EnIdle
    /\ \E in \in TranslatableInputs : ConstructedTranslatable(in)

NextTranslations ==
    \/ \E in \in TranslationInputs : NewLocalizedText(in)
    \/ AddTranslation
    \/ \E code \in LookupCodes : GetTranslationByCode(code)
    \/ \E code \in LookupCodes : GetTranslationsByCode(code)
    \/ \E name \in LookupNames : GetTranslationByName(name)
    \/ \E name \in LookupNames : GetTranslationsByName(name)

SpecTranslations == InitTranslations /\ [][NextTranslations]_vars

-----------------------------------------------------------------------------
(* Specification of TranslatableText.setEnglishTranslation(translator)      *)
(* (src/localization/actions.ts): one instance, and calls that are          *)
(* suspended at the await of translator.translate and resumed in any order. *)

TranslatorError == "TranslatorError"

\* What the promise of translator.translate(raw) settles with: a translation,
\* the empty string, or a rejection.
TranslatorOutcomes == {Ok(<<Latin>>), Ok(<<>>), Fail(TranslatorError)}

\* What eld.detect reports for the translation.
EnglishDetected == {"en", "ja", "de", ""}

EnglishCall(pc, out) == [pc |-> pc, out |-> out]

\* this.getTranslationByCode(code), as an expression.
getTranslationByCode(code) == orNull(find(tt.translations, "code", code))

\* The call up to its await: it returns this when an English translation is
\* found, and calls the translator otherwise.
SetEnglishTranslationCall ==
    /\ tt.exists
    /\ Len(en.calls) < MaxEnglishCalls
    /\ en' = IF getTranslationByCode("en") # Null
             THEN [en EXCEPT !.calls = Append(@, EnglishCall("done", "this"))]
             ELSE [en EXCEPT !.calls = Append(@, EnglishCall("await", "none")),
                             !.translated = @ + 1]
    /\ UNCHANGED <<tt, texts, ttOut, langVars, textVars, docVars, createVars, httpVars>>

\* The call i after its await: LocalizedText.fromString of the translation is
\* pushed; a rejection of the translator or an error of fromString rejects
\* the call.
SetEnglishTranslationResume(i, t, detected) ==
    /\ i \in DOMAIN en.calls
    /\ en.calls[i].pc = "await"
    /\ IF ~t.ok
       THEN /\ en' = [en EXCEPT !.calls[i] = EnglishCall("done", t.error)]
            /\ UNCHANGED <<tt, texts>>
       ELSE IF ~LocalizedTextFromString(t.value, detected).ok
       THEN /\ en' = [en EXCEPT !.calls[i] = EnglishCall("done", ZodError)]
            /\ UNCHANGED <<tt, texts>>
       ELSE /\ FreeTexts # {}
            /\ texts' = [texts EXCEPT ![Min(FreeTexts)] =
                            Alive(LocalizedTextFromString(t.value, detected).value)]
            /\ tt' = [tt EXCEPT !.translations = push(@, Min(FreeTexts))]
            /\ en' = [en EXCEPT !.calls[i] = EnglishCall("done", "undefined"),
                                !.appended = @ + 1]
    /\ UNCHANGED <<ttOut, langVars, textVars, docVars, createVars, httpVars>>

InitEnglish ==
    /\ LangIdle
    /\ TextIdle
    /\ DocIdle
    /\ CreateIdle
    /\ HttpIdle
    /\ EnIdle
    /\ \E in \in TranslatableInputs : ConstructedTranslatable(in)

NextEnglish ==
    \/ SetEnglishTranslationCall
    \/ \E i \in 1..MaxEnglishCalls, t \in TranslatorOutcomes, detected \in EnglishDetected :
          SetEnglishTranslationResume(i, t, detected)

SpecEnglish == InitEnglish /\ [][NextEnglish]_vars

-----------------------------------------------------------------------------
(* Specification of the construction of a Fanfiction: the fields id,        *)
(* origin_url, source, relationship and relationship_characters of the      *)
(* input vary, and the document then lives (chapters, cascade, clock).      *)

Url2 == <<"https://", "E", ".", "C", "/", "s">>
Url3 == <<"http://", "e", ".", "c", ":", "8", "/", "s">>
Urls == {Url1, Url2, Url3}

MetaInputs ==
    {MetaIn(Given("f-1"), u, s, r, rc) :
        u \in Urls,
        s \in {Absent, Given(""), Given("ao3")},
        r \in {Absent, Given(""), Given("X/Y")},
        rc \in {Absent, Given(<<>>), Given(<<"A">>), Given(<<"A", "B">>)}}

CreateBase == FanfictionIn(TextEn, TTIn(TextEn, <<>>), TTIn(TextJa, <<>>),
                           StrIn(<<"E", "N">>), <<>>)
CreateInputs == {[CreateBase EXCEPT !.meta = m] : m \in MetaInputs}

\* A construction of a Fanfiction: the schema variant, the input, whether the
\* input parsed, and the fields of the instance.
NoMeta == [id |-> "", origin_url |-> <<>>, source |-> "", relationship |-> "",
           relationship_characters |-> <<>>]
Made(variant, in, fresh) ==
    [variant |-> variant, in |-> in, fresh |-> fresh,
     ok |-> MetaInputValid(variant, in, fresh),
     out |-> IF MetaInputValid(variant, in, fresh)
             THEN MetaSchema(variant, in, fresh) ELSE NoMeta]

InitCreate ==
    /\ LangIdle
    /\ TextIdle
    /\ TranslationsIdle
    /\ pmade = <<>>
    /\ HttpIdle
    /\ EnIdle
    /\ now = 0
    /\ \E in \in CreateInputs :
          /\ Constructed(in)
          /\ made = <<Made("fanfictions", in.meta, "")>>
    /\ casc = [k \in CascIds |-> IdleCascade]
    /\ log = <<>>
    /\ ret = NoneRet

NextCreate ==
    \/ AddChapterOf(EmptyChapterInputs)
    \/ \E k \in CascIds : SetRichTextsStep(k)
    \/ \E k \in CascIds : SetRichTextsResume(k)
    \/ Tick

SpecCreate == InitCreate /\ [][NextCreate]_vars

-----------------------------------------------------------------------------
(* Specification of the identifiers: Fanfiction instances are constructed   *)
(* one after the other, under the schema of src/fanfictions/models.ts or    *)
(* that of src/lib/fanfiction.ts, from inputs with and without an id.       *)

MaxMade == 2      \* Fanfiction instances constructed

UrlWithoutScheme == <<"e", ".", "c">>

IdInputs ==
    {MetaIn(id, u, Absent, Absent, Absent) :
        id \in {Absent, Given("f-1"), Given("uuid-1")},
        u \in {Url1, UrlWithoutScheme}}

Variants == {"fanfictions", "lib"}

\* The values uuid() has returned so far.
Issued == {made[i].fresh : i \in DOMAIN made} \ {""}

\* Whether parsing the input calls uuid(): only the default of the id of
\* src/lib/fanfiction.ts does, for an input without id.
CallsUuid(variant, in) == variant = "lib" /\ ~in.id.given

\* uuid(): crypto.randomUUID(), 122 random bits; a value is taken never to be
\* returned twice.
FreshUuids(variant, in) ==
    IF CallsUuid(variant, in) THEN Uuids \ Issued ELSE {""}

\* new Fanfiction(in)
NewFanfiction(variant, in) ==
    /\ Len(made) < MaxMade
    /\ \E fresh \in FreshUuids(variant, in) :
          made' = Append(made, Made(variant, in, fresh))
    /\ UNCHANGED <<langVars, textVars, docVars, ttVars, pmade, httpVars, enVars>>

InitIds == LangIdle /\ TextIdle /\ DocIdle /\ TranslationsIdle /\ CreateIdle
                /\ HttpIdle /\ EnIdle

NextIds == \E variant \in Variants, in \in IdInputs : NewFanfiction(variant, in)

SpecIds == InitIds /\ [][NextIds]_vars

-----------------------------------------------------------------------------
(* Specification of the paragraphs and their hash: Paragraph instances are  *)
(* constructed under the schema of src/fanfictions/models.ts or that of     *)
(* src/lib/fanfiction.ts, and appended to chapters with addParagraph.       *)

MaxParagraphsMade == 2    \* Paragraph instances constructed
MaxAppends == 2           \* addParagraph calls that pass one instance

\* createHash("md5").update(value).digest("hex"): a digest the value
\* determines.
md5(value) == "md5:" \o Str(value)

HashIn(raw, language, translations, index, hash) ==
    [raw |-> raw, language |-> language, translations |-> translations,
     index |-> index, hash |-> hash]

HashInputs ==
    {HashIn(raw, language, translations, index, Absent) :
        raw \in {<<Latin>>, <<Latin, SP>>, <<"b">>},
        language \in {"en", "ja"},
        translations \in {<<>>, <<"t">>},
        index \in {0, StaleIndex}}
    \cup {HashIn(<<Latin>>, "en", <<>>, 0, hash) : hash \in {Given(""), Given("h")}}

\* Paragraph.schema and the constructor of Paragraph.  The schema of
\* src/fanfictions/models.ts has no hash key, so zod strips a given one and
\* the instance has no hash; the constructor of src/lib/fanfiction.ts sets
\* md5(this.original.raw) when the parsed hash (default "") is falsy.
\* `chapters` are the chapters the instance was pushed to, in order.
ConstructedParagraph(variant, in) ==
    [variant |-> variant, in |-> in,
     raw |-> trim(in.raw), language |-> in.language,
     translations |-> in.translations, index |-> in.index,
     hash |-> IF variant = "fanfictions" THEN Absent
              ELSE IF in.hash.given /\ in.hash.value # "" THEN in.hash
              ELSE Given(md5(trim(in.raw))),
     chapters |-> <<>>]

\* new Paragraph(in)
MakeParagraph(variant, in) ==
    /\ Len(pmade) < MaxParagraphsMade
    /\ pmade' = Append(pmade, ConstructedParagraph(variant, in))
    /\ UNCHANGED <<langVars, textVars, docVars, ttVars, made, httpVars, enVars>>

RECURSIVE Count(_, _)
Count(seq, x) ==
    IF seq = <<>> THEN 0
    ELSE (IF Head(seq) = x THEN 1 ELSE 0) + Count(Tail(seq), x)

RECURSIVE Pushes(_, _)
Pushes(instances, c) ==
    IF instances = <<>> THEN 0
    ELSE Count(Head(instances).chapters, c) + Pushes(Tail(instances), c)

\* this.paragraphs.length of chapter c
ParagraphsLength(c) == Pushes(pmade, c)

\* chapter.addParagraph(paragraph), paragraph an instance: its index is
\* rewritten and the instance pushed.
AppendInstance(i, c) ==
    /\ i \in DOMAIN pmade
    /\ Len(pmade[i].chapters) < MaxAppends
    /\ pmade' = [pmade EXCEPT ![i].index = ParagraphsLength(c),
                              ![i].chapters = Append(@, c)]
    /\ UNCHANGED <<langVars, textVars, docVars, ttVars, made, httpVars, enVars>>

\* chapter.addParagraph(paragraph), paragraph a plain input: its index is
\* rewritten and Paragraph.parse(paragraph) pushed.
AppendInput(variant, in, c) ==
    /\ Len(pmade) < MaxParagraphsMade
    /\ pmade' = Append(pmade,
          [ConstructedParagraph(variant, [in EXCEPT !.index = ParagraphsLength(c)])
             EXCEPT !.chapters = <<c>>])
    /\ UNCHANGED <<langVars, textVars, docVars, ttVars, made, httpVars, enVars>>

InitParagraphs == LangIdle /\ TextIdle /\ DocIdle /\ TranslationsIdle /\ CreateIdle
                /\ HttpIdle /\ EnIdle

NextParagraphs ==
    \/ \E variant \in Variants, in \in HashInputs : MakeParagraph(variant, in)
    \/ \E i \in 1..MaxParagraphsMade, c \in ChapIds : AppendInstance(i, c)
    \/ \E variant \in Variants, in \in HashInputs, c \in ChapIds :
          AppendInput(variant, in, c)

SpecParagraphs == InitParagraphs /\ [][NextParagraphs]_vars

-----------------------------------------------------------------------------
(* Specification of HttpRequest (src/base/http): instances are created,     *)
(* forked, and their headers changed by the caller.                         *)

JsonContentType == "application/json;charset=UTF-8"

\* value.includes("json")
IncludesJson(value) == value = JsonContentType

\* The properties given to create() and fork(): every key is optional; headers
\* is an object literal of header values ("" for a header it has not).
RequestIn(path, origin, method, json, headers) ==
    [path |-> path, origin |-> origin, method |-> method, json |-> json,
     headers |-> headers]

HeadersOf(userAgent, contentType) ==
    [n \in HeaderNames |-> IF n = "user-agent" THEN userAgent ELSE contentType]

\* HttpRequest.schema on the keys modelled: path starts with "/" and defaults
\* to "/", origin is an optional URL, method defaults to "GET".
StartsWithSlash(path) == path \in {"/", "/original", "/forked"}
RequestInputValid(in) == in.path.given => StartsWithSlash(in.path.value)

\* The first free place of the heap, 0 when it is full.
FreeRequest ==
    IF \E i \in ReqIds : ~reqs[i].alive
    THEN CHOOSE i \in ReqIds : ~reqs[i].alive /\ \A j \in ReqIds : j < i => reqs[j].alive
    ELSE 0

\* The constructor: if (this.properties.json) and the content type has no
\* "json", the content-type header of the instance is set.
ConstructedHeaders(json, headers) ==
    IF json # "" /\ ~IncludesJson(headers["content-type"])
    THEN [headers EXCEPT !["content-type"] = JsonContentType]
    ELSE headers

\* HttpRequest.create(properties), the instance at place j with a Headers
\* object of its own.
Create(in) ==
    /\ FreeRequest # 0
    /\ \A i \in ReqIds : ~reqs[i].alive
    /\ RequestInputValid(in)
    /\ LET j == FreeRequest
       IN /\ reqs' = [reqs EXCEPT ![j] =
                [alive |-> TRUE,
                 path |-> IF in.path.given THEN in.path.value ELSE "/",
                 origin |-> IF in.origin.given THEN in.origin.value ELSE "",
                 method |-> IF in.method.given THEN in.method.value ELSE "GET",
                 json |-> IF in.json.given THEN in.json.value ELSE "",
                 headers |-> j]]
          /\ hdrs' = [hdrs EXCEPT ![j] =
                ConstructedHeaders(IF in.json.given THEN in.json.value ELSE "",
                                   in.headers)]
    /\ UNCHANGED <<http, langVars, textVars, docVars, ttVars, createVars, enVars>>

\* A slip: the given headers are set on the Headers object of this request.
mergedHeadersInPlace(this, new) == reqs[this].headers

\* const mergedHeaders = new Headers(this.properties.headers): the place of the
\* Headers object the given headers are set on, a new object.
mergedHeaders(this, new) == new

\* givenHeaders.forEach((value, key) => mergedHeaders.set(key, value))
SetGiven(headers, given) ==
    [n \in HeaderNames |-> IF given[n] # "" THEN given[n] ELSE headers[n]]

\* Object.assign({}, this.properties, rest, { headers: mergedHeaders })
Assigned(this, rest, headers) ==
    [alive |-> TRUE,
     path |-> IF rest.path.given THEN rest.path.value ELSE reqs[this].path,
     origin |-> IF rest.origin.given THEN rest.origin.value ELSE reqs[this].origin,
     method |-> IF rest.method.given THEN rest.method.value ELSE reqs[this].method,
     json |-> IF rest.json.given THEN rest.json.value ELSE reqs[this].json,
     headers |-> headers]

\* request.fork(value), value plain properties: the headers are merged before
\* the constructor parses the properties, so they are also when it throws.
Fork(this, in) ==
    /\ reqs[this].alive
    /\ FreeRequest # 0
    /\ LET j == FreeRequest
           h == mergedHeaders(this, j)
           merged == SetGiven(hdrs[reqs[this].headers], in.headers)
       IN IF RequestInputValid(in)
          THEN /\ reqs' = [reqs EXCEPT ![j] = Assigned(this, in, h)]
               /\ hdrs' = [hdrs EXCEPT ![h] =
                              ConstructedHeaders(Assigned(this, in, h).json, merged)]
          ELSE /\ reqs' = reqs
               /\ hdrs' = IF h = j THEN hdrs ELSE [hdrs EXCEPT ![h] = merged]
    /\ UNCHANGED <<http, langVars, textVars, docVars, ttVars, createVars, enVars>>

\* The properties of an instance, as fork(value) reads them of value.properties.
PropertiesOf(i) ==
    RequestIn(Given(reqs[i].path),
              IF reqs[i].origin = "" THEN Absent ELSE Given(reqs[i].origin),
              Given(reqs[i].method),
              IF reqs[i].json = "" THEN Absent ELSE Given(reqs[i].json),
              hdrs[reqs[i].headers])

\* request.fork(value), value an HttpRequest.
ForkRequest(this, value) ==
    /\ reqs[value].alive
    /\ Fork(this, PropertiesOf(value))

\* request.properties.headers.set(name, value), by the caller.
SetHeader(i, name, value) ==
    /\ reqs[i].alive
    /\ hdrs[reqs[i].headers][name] # value
    /\ hdrs' = [hdrs EXCEPT ![reqs[i].headers][name] = value]
    /\ UNCHANGED <<reqs, http, langVars, textVars, docVars, ttVars, createVars, enVars>>

ExampleOrigin == "https://example.com"

RequestInputs ==
    {RequestIn(Given("/original"), Absent, Absent, Absent, HeadersOf("1", "")),
     RequestIn(Absent, Given(ExampleOrigin), Given("POST"), Given("{}"),
               HeadersOf("", ""))}

ForkInputs ==
    {RequestIn(path, origin, Absent, Absent, headers) :
        path \in {Absent, Given("/forked")},
        origin \in {Absent, Given(ExampleOrigin)},
        headers \in {HeadersOf("", ""), HeadersOf("2", ""), HeadersOf("", "text/html")}}
    \cup {RequestIn(Absent, Absent, Given("PUT"), Given("{}"), HeadersOf("", "")),
          RequestIn(Given("forked"), Absent, Absent, Absent, HeadersOf("2", ""))}

InitFork ==
    /\ LangIdle /\ TextIdle /\ DocIdle /\ TranslationsIdle /\ CreateIdle
    /\ HttpIdle /\ EnIdle

NextFork ==
    \/ \E in \in RequestInputs : Create(in)
    \/ \E this \in ReqIds, in \in ForkInputs : Fork(this, in)
    \/ \E this, value \in ReqIds : ForkRequest(this, value)
    \/ \E i \in ReqIds, name \in HeaderNames : SetHeader(i, name, "3")

SpecFork == InitFork /\ [][NextFork]_vars

-----------------------------------------------------------------------------
(* Specification of HttpClient: send of src/base/http (part_004) and        *)
(* request of src/base/clients.ts, one call at a time, the interceptors     *)
(* and the response being inputs.                                           *)

Interceptors == {"f", "g"}

RECURSIVE ListsUpTo(_)
ListsUpTo(n) ==
    IF n = 0 THEN {<<>>}
    ELSE ListsUpTo(n - 1) \cup
         {Append(l, f) : l \in {t \in ListsUpTo(n - 1) : Len(t) = n - 1},
                         f \in Interceptors}

\* The lists passed with a call: any list, the same function twice included.
CallLists == ListsUpTo(MaxInterceptors)
\* The lists a client is configured with.
ClientLists == {<<>>, <<"f">>, <<"g">>}

\* interceptors.request.includes(interceptor)
includes(list, x) == \E i \in DOMAIN list : list[i] = x

\* A slip: the lists are concatenated.
mergeListsByConcat(list1, list2) == list1 \o list2

\* One list of mergeInterceptors: the second list's entries that the merged
\* list has not yet are pushed, in order.
RECURSIVE mergeLists(_, _)
mergeLists(list1, list2) ==
    IF list2 = <<>> THEN list1
    ELSE mergeLists(IF includes(list1, Head(list2)) THEN list1
                    ELSE Append(list1, Head(list2)),
                    Tail(list2))

\* deepMerge(this.defaults, config) on an array of the config: the arrays of
\* both are concatenated (getMergedConfig).
getMergedConfig(defaults, list) == defaults \o list

\* The interceptors a call runs.  send: the instance merges its list with the
\* call's, and the static send merges the class's list (empty) with that.
\* request: the merged config's list, as it is.
Applied(variant, client, call) ==
    IF variant = "send" THEN mergeLists(<<>>, mergeLists(client, call))
    ELSE getMergedConfig(client, call)

ClientIn(url, clientRequest, callRequest, clientResponse, callResponse) ==
    [url |-> url, clientRequest |-> clientRequest, callRequest |-> callRequest,
     clientResponse |-> clientResponse, callResponse |-> callResponse]

ClientInputs ==
    {ClientIn(url, cq, q, cr, r) :
        url \in BOOLEAN, cq \in ClientLists, q \in CallLists,
        cr \in {<<>>, <<"f">>}, r \in {<<>>, <<"f">>, <<"g", "f">>}}

\* What fetch can resolve to (or reject with): the status, whether the
\* content type is JSON, and whether the body can be read as that.
Responses ==
    {[kind |-> "response", ok |-> status = 200, status |-> status, json |-> json,
      readable |-> readable, body |-> IF ~json THEN "Oops!"
                                     ELSE IF readable THEN "{\"song\":1}" ELSE ""] :
        status \in {200, 404}, json \in BOOLEAN, readable \in BOOLEAN}
    \cup {[NoResponse EXCEPT !.kind = "network error"]}

HttpError == "HttpError"
SyntaxError == "SyntaxError"

Returned == [NoOutcome EXCEPT !.kind = "returned"]
RejectedWith(error, status, body) ==
    [kind |-> "rejected", error |-> error, status |-> status, body |-> body]

HttpVariants == {"send", "request"}

\* The call starts.  request: getRequest throws a TypeError when the config
\* has no url, before anything else.  send: the origin is only looked at by
\* toNativeRequest, after the request interceptors.
Send(variant, in) ==
    /\ http.pc = "idle"
    /\ http' = IF variant = "request" /\ ~in.url
               THEN [IdleClient EXCEPT !.pc = "done", !.variant = variant, !.in = in,
                                       !.out = RejectedWith(TypeError, 0, "")]
               ELSE [IdleClient EXCEPT
                       !.pc = "request interceptors", !.variant = variant, !.in = in,
                       !.request = Applied(variant, in.clientRequest, in.callRequest),
                       !.response = Applied(variant, in.clientResponse, in.callResponse),
                       !.i = 1]
    /\ UNCHANGED <<reqs, hdrs, langVars, textVars, docVars, ttVars, createVars, enVars>>

\* await interceptor(request), the next of the list; after the last, fetch is
\* called (send: toNativeRequest throws a TypeError without an origin).
RequestInterceptor ==
    /\ http.pc = "request interceptors"
    /\ http' = IF http.i <= Len(http.request)
               THEN [http EXCEPT !.log = Append(@, <<"request", http.request[http.i]>>),
                                 !.i = @ + 1]
               ELSE IF http.variant = "send" /\ ~http.in.url
               THEN [http EXCEPT !.pc = "done", !.out = RejectedWith(TypeError, 0, "")]
               ELSE [http EXCEPT !.pc = "fetch", !.log = Append(@, <<"fetch">>)]
    /\ UNCHANGED <<reqs, hdrs, langVars, textVars, docVars, ttVars, createVars, enVars>>

\* await fetch(request) settles.
Fetch(res) ==
    /\ http.pc = "fetch"
    /\ http' = IF res.kind = "network error"
               THEN [http EXCEPT !.pc = "done", !.res = res,
                                 !.out = RejectedWith(TypeError, 0, "")]
               ELSE [http EXCEPT !.pc = "body", !.res = res]
    /\ UNCHANGED <<reqs, hdrs, langVars, textVars, docVars, ttVars, createVars, enVars>>

\* await response.json() / response.text() settles; request then throws an
\* HttpError when the response is not ok.
Body ==
    /\ http.pc = "body"
    /\ http' = IF http.res.json /\ ~http.res.readable
               THEN [http EXCEPT !.pc = "done",
                                 !.out = RejectedWith(SyntaxError, 0, "")]
               ELSE IF http.variant = "request" /\ ~http.res.ok
               THEN [http EXCEPT !.pc = "done", !.log = Append(@, <<"body">>),
                                 !.out = RejectedWith(HttpError, http.res.status,
                                                      http.res.body)]
               ELSE [http EXCEPT !.pc = "response interceptors", !.i = 1,
                                 !.log = Append(@, <<"body">>)]
    /\ UNCHANGED <<reqs, hdrs, langVars, textVars, docVars, ttVars, createVars, enVars>>

\* await interceptor(response), the next of the list; after the last, the
\* response is returned.
ResponseInterceptor ==
    /\ http.pc = "response interceptors"
    /\ http' = IF http.i <= Len(http.response)
               THEN [http EXCEPT !.log = Append(@, <<"response", http.response[http.i]>>),
                                 !.i = @ + 1]
               ELSE [http EXCEPT !.pc = "done", !.out = Returned]
    /\ UNCHANGED <<reqs, hdrs, langVars, textVars, docVars, ttVars, createVars, enVars>>

\* The caller goes on with another call.
NextCall ==
    /\ http.pc = "done"
    /\ http' = IdleClient
    /\ UNCHANGED <<reqs, hdrs, langVars, textVars, docVars, ttVars, createVars, enVars>>

InitClient ==
    /\ LangIdle /\ TextIdle /\ DocIdle /\ TranslationsIdle /\ CreateIdle
    /\ HttpIdle /\ EnIdle

NextClient ==
    \/ \E variant \in HttpVariants, in \in ClientInputs : Send(variant, in)
    \/ RequestInterceptor
    \/ \E res \in Responses : Fetch(res)
    \/ Body
    \/ ResponseInterceptor
    \/ NextCall

SpecClient == InitClient /\ [][NextClient]_vars

-----------------------------------------------------------------------------
(* Specification of overlapping cascades: two setRichTexts() calls on one   *)
(* Fanfiction, each started at any moment, also before the other has        *)
(* completed an await.                                                      *)

RaceIds == {"c1", "c2"}

InitRace ==
    /\ LangIdle
    /\ TextIdle
    /\ TranslationsIdle
    /\ CreateIdle
    /\ HttpIdle
    /\ EnIdle
    /\ now = 0
    /\ \E in \in FanfictionInputs : Constructed(in)
    /\ casc = [k \in RaceIds |-> IdleCascade]
    /\ log = <<>>
    /\ ret = NoneRet

NextRace ==
    \/ \E k \in RaceIds : SetRichTextsStep(k)
    \/ \E k \in RaceIds : SetRichTextsResume(k)

SpecRace == InitRace /\ [][NextRace]_vars

-----------------------------------------------------------------------------
(* Specification of the Russian annotation: a Russian LocalizedText of any  *)
(* raw text of Cyrillic letters, Latin letters and spaces is annotated.     *)

RussianChars == {SP, Latin, "cyr_d", "cyr_a"}

RECURSIVE StringsOver(_, _)
StringsOver(chars, n) ==
    IF n = 0 THEN {<<>>}
    ELSE StringsOver(chars, n - 1) \cup
         {Append(s, c) : s \in {t \in StringsOver(chars, n - 1) : Len(t) = n - 1},
                         c \in chars}

\* The raw texts a LocalizedText can have: not empty, trimmed.
RussianRaws == {s \in StringsOver(RussianChars, MaxRussianLen) : s # <<>> /\ trim(s) = s}

InitRussian ==
    /\ LangIdle /\ DocIdle /\ TranslationsIdle /\ CreateIdle /\ HttpIdle /\ EnIdle
    /\ \E raw \in RussianRaws :
          lt = Instance([raw |-> raw, rich |-> <<>>,
                         language |-> [code |-> "ru", name |-> "Russian"]])
    /\ ltOut = TextOut("construct", TRUE, "", lt.raw, "", TRUE)
    /\ ltCall = IdleCall
    /\ ltHist = NoHist

NextRussian ==
    \/ SetRichTextCall
    \/ SetRichTextResume

SpecRussian == InitRussian /\ [][NextRussian]_vars

-----------------------------------------------------------------------------
(* Claims.                                                                  *)

\* How many times the Paragraph instance p is a child, over all chapters.
ParagraphOccurrences(p) ==
    Cardinality({e \in ChapIds \X (1..MaxParagraphs) :
                   /\ chap[e[1]].alive
                   /\ e[2] \in DOMAIN chap[e[1]].paragraphs
                   /\ chap[e[1]].paragraphs[e[2]] = p})

\* How many times the Chapter instance c is a child of the Fanfiction.
ChapterOccurrences(c) ==
    Cardinality({i \in DOMAIN fanfic.chapters : fanfic.chapters[i] = c})

C6_RawNonEmptyAfterTrim ==
    /\ ltOut.op = "construct" /\ ltOut.langOk =>
          IF trim(ltOut.raw) = <<>>
          THEN ~ltOut.ok /\ ~lt.exists
          ELSE ltOut.ok /\ lt.exists /\ lt.raw = trim(ltOut.raw)
    /\ lt.exists => lt.raw # <<>>

\* C9: for every non-empty raw string, LocalizedText.fromString returns a text
\* whose language code is the code the detector reports, or "xx" when the
\* detector reports nothing, and TranslatableText.fromString wraps that text
\* as original with no translations.
C9_FromStringTakesDetectedCode ==
    /\ ltOut.op \in {"fromString", "TranslatableText.fromString"} /\ ltOut.raw # <<>> =>
          /\ ltOut.ok
          /\ lt.exists
          /\ lt.language.code = (IF ltOut.detected = "" THEN "xx" ELSE ltOut.detected)
    /\ ltOut.op = "TranslatableText.fromString" /\ ltOut.raw # <<>> =>
          /\ lt = Instance(LocalizedTextFromString(ltOut.raw, ltOut.detected).value)
          /\ ltOut.translations = <<>>

\* C10: setRichText() on a text without rich whose language is any language of
\* the registry but Japanese and Russian (Undetermined included) completes
\* without error and leaves rich empty.
C10_OtherLanguagesPassThrough ==
    /\ ltOut.op = "setRichText"
    /\ lt.language.code \in LanguageCode \ {"ja", "ru"}
    /\ ltHist.richBefore = <<>>
    => ltOut.ok /\ lt.rich = <<>>

-----------------------------------------------------------------------------

UnknownSpellings ==
    {<<"d", "e">>, <<"T", "H">>, <<"G", "e", "r", "m", "a", "n">>,
     <<"t", "h", "a", "i">>, <<"e">>, <<>>, <<"e", "n", SP>>}

\* C7: every Language value LanguageSchema accepts, from a code, a name or a
\* { code, name } object, is an entry of the registry: its code and its name
\* belong to the same language.
C7_AcceptedLanguageIsRegistryEntry ==
    langIn.schema = "LanguageSchema" /\ langOut.ok => langOut.value \in Registry

-----------------------------------------------------------------------------

\* What the call k did, oldest first, and the texts it did it to.
VisitsOf(k) == SelectSeq(log, LAMBDA e : e.call = k)
TargetsOf(k) == [i \in 1..Len(VisitsOf(k)) |-> VisitsOf(k)[i].target]

RECURSIVE IsSubsequence(_, _)
IsSubsequence(s, t) ==
    IF s = <<>> THEN TRUE
    ELSE IF t = <<>> THEN FALSE
    ELSE IF Head(s) = Head(t) THEN IsSubsequence(Tail(s), Tail(t))
    ELSE IsSubsequence(s, Tail(t))

Translations ==
    {fanfic.summary.translations, fanfic.title.translations}
    \cup {chap[c].title.translations : c \in ChapIds}
    \cup {chap[c].summary.translations : c \in ChapIds}
    \cup {par[p].translations : p \in ParIds}

\* C3: a setRichTexts() call handles the texts in the order author name,
\* summary, title, then per chapter its title, its summary and its paragraphs,
\* null titles and summaries left out; a call that completed on a document
\* nobody changed meanwhile handled exactly these texts; every annotation but
\* the last started has completed; no translation is annotated.
C3_CascadeInOrder ==
    /\ \A k \in CascIds :
          /\ IsSubsequence(TargetsOf(k), CascadeOrder)
          /\ casc[k].pc = "done" /\ ~casc[k].dirty => TargetsOf(k) = CascadeOrder
          /\ Len(SelectSeq(VisitsOf(k), LAMBDA e : e.outcome = "invoked"))
                = casc[k].resumed + (IF casc[k].pc = "await" THEN 1 ELSE 0)
    /\ \A ts \in Translations : \A i \in DOMAIN ts : ts[i].rich = <<>>

\* C3 witness: a completed call on a document with a chapter whose title is
\* null, whose paragraphs are annotated in order, and whose summary has a
\* Japanese translation.
C3_Witness ==
    \E k \in CascIds :
       /\ casc[k].pc = "done"
       /\ ~casc[k].dirty
       /\ Len(fanfic.chapters) = 1
       /\ LET c == chap[fanfic.chapters[1]]
          IN /\ c.title.isNull
             /\ ~c.summary.isNull
             /\ c.summary.original.rich # <<>>
             /\ Len(c.summary.translations) = 1
             /\ c.summary.translations[1].language.code = "ja"
             /\ Len(c.paragraphs) = 2
             /\ par[c.paragraphs[2]].original.rich # <<>>
       /\ Len(TargetsOf(k)) = 6

\* C4: a setRichTexts() call in which an annotation fails rejects with the
\* error of that annotation; the failed annotation is the last thing the call
\* did; triggerUpdate is not executed, and updated_at is what it was when the
\* call started unless another operation wrote it.
C4_CascadeFailsFast ==
    \A k \in CascIds :
       LET v == VisitsOf(k)
       IN /\ \A i \in DOMAIN v :
                v[i].outcome = "failed" =>
                   /\ i = Len(v)
                   /\ casc[k].pc = "failed"
                   /\ casc[k].error = v[i].error
          /\ casc[k].pc = "failed" =>
                /\ v # <<>>
                /\ v[Len(v)].outcome = "failed"
                /\ casc[k].error # ""
                /\ casc[k].updates = 0
                /\ casc[k].result = "none"
                /\ ~casc[k].dirty => fanfic.updated_at = casc[k].updatedAtStart

\* C4 witness: the tokenizer failed on the Russian summary, the title was not
\* reached, and the clock has moved on since the call started.
C4_Witness ==
    \E k \in CascIds :
       /\ casc[k].pc = "failed"
       /\ casc[k].error = AnnotationError
       /\ casc[k].target = Loc("summary", 0)
       /\ ~casc[k].dirty
       /\ now > casc[k].updatedAtStart
       /\ fanfic.title.original.rich = <<>>
       /\ Len(VisitsOf(k)) < Len(CascadeOrder)

\* C5: a successful addChapter and a completing setRichTexts write the clock
\* value of their last step to updated_at and return the instance they were
\* called on; apart from the chapter appended by addChapter, no other field of
\* the Fanfiction changes.
C5_UpdatedAtEndOfCall ==
    [][ /\ (AddChapter /\ ret'.ok) =>
              /\ ret'.value = "this"
              /\ Len(fanfic'.chapters) = Len(fanfic.chapters) + 1
              /\ fanfic' = [fanfic EXCEPT !.chapters = fanfic'.chapters,
                                          !.updated_at = now]
        /\ \A k \in CascIds :
              (SetRichTextsStep(k) /\ casc'[k].pc = "done") =>
                 /\ casc'[k].result = "this"
                 /\ fanfic' = [fanfic EXCEPT !.updated_at = now]
      ]_vars

\* C5 witness: a setRichTexts() call completed after the clock had moved on,
\* and updated_at is the clock value of its completion.
C5_Witness ==
    \E k \in CascIds :
       /\ casc[k].pc = "done"
       /\ ~casc[k].dirty
       /\ fanfic.updated_at = now
       /\ fanfic.updated_at > casc[k].updatedAtStart
       /\ fanfic.created_at < fanfic.updated_at

-----------------------------------------------------------------------------

C20_CodeNameRoundTrip ==
    /\ langIn.prev.set => langOut = Ok(langIn.prev.value)
    /\ langIn.schema = "LanguageSchema" /\ langIn.input.kind = "string"
          /\ langIn.input.value \in LanguageCode \cup LanguageName
       => langOut.ok /\ langOut.value \in Registry
    /\ {LANGUAGE_BY_CODE[c] : c \in LanguageCode}
          = {LANGUAGE_BY_NAME[n] : n \in LanguageName}
    /\ \A c \in LanguageCode : LANGUAGE_BY_CODE[c].code = c
    /\ \A n \in LanguageName : LANGUAGE_BY_NAME[n].name = n

\* C20 witness: "ja" resolved to Japanese, and "Japanese" resolved back to it.
C20_Witness ==
    /\ langIn.prev.set
    /\ langIn.prev.by = "name"
    /\ langIn.prev.value = [code |-> "ja", name |-> "Japanese"]
    /\ langIn.input = StrIn("Japanese")
    /\ langOut = Ok(langIn.prev.value)

-----------------------------------------------------------------------------

\* C13: updateLanguage(x), x a code or a name of the registry, replaces the
\* language by the registry entry of x and leaves raw and rich as they are; a
\* setRichText() call on a text whose rich is not empty, whatever its language
\* has become, invokes no annotator and changes nothing.
C13_UpdateLanguageKeepsRich ==
    [][ /\ \A x \in LanguageCode \cup LanguageName :
              (UpdateLanguage(x) \/ UpdateLanguageParse(x)) =>
                 /\ lt'.language = (IF x \in LanguageCode THEN LANGUAGE_BY_CODE[x]
                                    ELSE LANGUAGE_BY_NAME[x])
                 /\ lt'.raw = lt.raw
                 /\ lt'.rich = lt.rich
        /\ (SetRichTextCall /\ lt.rich # <<>>) =>
              /\ lt' = lt
              /\ ltCall'.pc = "idle"
              /\ ~ltHist'.invoked
      ]_vars

\* C13 witness: a Japanese text was annotated, became English, and a later
\* setRichText() left the Japanese annotation in place.
C13_Witness ==
    /\ ltOut.op = "setRichText"
    /\ ltHist.calls = 1
    /\ ~ltHist.invoked
    /\ lt.language = [code |-> "en", name |-> "English"]
    /\ lt.rich # <<>>
    /\ lt.rich[1] = RubyOpen

-----------------------------------------------------------------------------

\* C18: after any sequence of addChapter and addParagraph calls every Paragraph
\* instance is a child of at most one Chapter, every Chapter instance a child
\* of the Fanfiction at most once, and no instance occurs twice in a sequence.
C18_OwnershipIsExclusive ==
    /\ \A p \in ParIds : par[p].alive => ParagraphOccurrences(p) <= 1
    /\ \A c \in ChapIds : chap[c].alive => ChapterOccurrences(c) <= 1

-----------------------------------------------------------------------------

\* The translations whose language has `key` as its `field`, in order.
Matching(field, key) ==
    SelectSeq(tt.translations, LAMBDA id : texts[id].language[field] = key)
FirstOrNull(list) == IF list = <<>> THEN 0 ELSE list[1]

\* C11: getTranslationsByCode(c) returns the translations whose language code
\* is c, in the order of the sequence, and getTranslationByCode(c) the first of
\* them, or null when there is none; likewise by name; no lookup throws or
\* changes the TranslatableText or a LocalizedText.
C11_LookupsScanInOrder ==
    [][ /\ \A c \in LookupCodes :
              /\ GetTranslationsByCode(c) =>
                    ttOut'.ok /\ ttOut'.list = Matching("code", c)
              /\ GetTranslationByCode(c) =>
                    ttOut'.ok /\ ttOut'.found = FirstOrNull(Matching("code", c))
        /\ \A n \in LookupNames :
              /\ GetTranslationsByName(n) =>
                    ttOut'.ok /\ ttOut'.list = Matching("name", n)
              /\ GetTranslationByName(n) =>
                    ttOut'.ok /\ ttOut'.found = FirstOrNull(Matching("name", n))
        /\ ttOut'.op \in {"getTranslationByCode", "getTranslationsByCode",
                          "getTranslationByName", "getTranslationsByName"}
           => tt' = tt /\ texts' = texts
      ]_vars

\* C11 witness: of two English translations with a Japanese one between them,
\* the lookup by code returned the first.
C11_Witness ==
    /\ ttOut.op = "getTranslationByCode"
    /\ ttOut.arg = "en"
    /\ Len(tt.translations) = 3
    /\ texts[tt.translations[1]].language.code = "en"
    /\ texts[tt.translations[2]].language.code = "ja"
    /\ texts[tt.translations[3]].language.code = "en"
    /\ tt.translations[1] # tt.translations[3]
    /\ ttOut.found = tt.translations[1]

\* C12: a successful addTranslation leaves the translations there were, in
\* their order, and puts the value added after them, whatever its language;
\* the original and the instances there were are unchanged; an instance passed
\* is stored as that instance, a plain input as a LocalizedText constructed
\* from it by the call.  A call whose input is refused adds nothing.
C12_AddTranslationAppends ==
    [][ AddTranslation =>
          IF ttOut'.ok
          THEN LET n == Len(tt.translations)
                   x == tt'.translations[n + 1]
               IN /\ Len(tt'.translations) = n + 1
                  /\ SubSeq(tt'.translations, 1, n) = tt.translations
                  /\ tt'.original = tt.original
                  /\ \A i \in TextIds : texts[i].alive => texts'[i] = texts[i]
                  /\ IF ttOut'.passed # 0
                     THEN x = ttOut'.passed /\ texts' = texts
                     ELSE /\ ~texts[x].alive
                          /\ texts'[x] = Alive(LocalizedTextSchema(ttOut'.input).value)
          ELSE tt' = tt /\ texts' = texts
      ]_vars

\* C12 witness: one instance added twice after a translation of the same
\* language: three elements, nothing merged.
C12_Witness ==
    /\ ttOut.op = "addTranslation"
    /\ ttOut.passed # 0
    /\ Len(tt.translations) = 3
    /\ tt.translations[2] = tt.translations[3]
    /\ tt.translations[1] # tt.translations[2]
    /\ texts[tt.translations[1]].language = texts[tt.translations[2]].language

-----------------------------------------------------------------------------

\* What the input of the document's construction gave for an optional field,
\* and `none` when it gave nothing.
Supplied(field, none) ==
    IF made[1].in[field].given THEN made[1].in[field].value ELSE none

\* C14: after constructing a Fanfiction, relationship is the elements of
\* relationship_characters joined with "/" whenever that list is non-empty,
\* whatever relationship string was supplied; when the list is empty it is
\* the supplied relationship string unchanged, and "" when none was supplied.
C14_RelationshipIsDerived ==
    made # <<>> =>
       /\ fanfic.relationship_characters = Supplied("relationship_characters", <<>>)
       /\ fanfic.relationship =
             IF Supplied("relationship_characters", <<>>) # <<>>
             THEN join(Supplied("relationship_characters", <<>>), "/")
             ELSE Supplied("relationship", "")

\* Two characters and another relationship string were supplied: the
\* relationship is "A/B".
C14_Witness ==
    /\ made # <<>>
    /\ made[1].in.relationship = Given("X/Y")
    /\ made[1].in.relationship_characters = Given(<<"A", "B">>)
    /\ fanfic.relationship = "A/B"

\* C15 as stated: after constructing a Fanfiction, source is the supplied
\* source when one was given, and otherwise the hostname of origin_url, and
\* no later addChapter, setRichTexts or triggerUpdate changes it.
C15_SourceIsSuppliedOrHostname ==
    made # <<>> =>
       fanfic.source = IF made[1].in.source.given THEN made[1].in.source.value
                       ELSE hostname(made[1].in.origin_url)

\* C15, amended: source is the supplied source when a non-empty one was given,
\* and otherwise (none, or the empty string) the hostname of origin_url; it
\* holds in every state of the document's life, so no later addChapter,
\* setRichTexts or triggerUpdate changes it.
C15_SourceIsNonEmptySuppliedOrHostname ==
    made # <<>> =>
       fanfic.source = IF Supplied("source", "") # "" THEN Supplied("source", "")
                       ELSE hostname(made[1].in.origin_url)

\* No source was supplied, the URL has an upper-case host, and a chapter was
\* added and a cascade ran to its end after the construction.
C15_Witness ==
    /\ made # <<>>
    /\ ~made[1].in.source.given
    /\ made[1].in.origin_url = Url2
    /\ fanfic.source = "e.c"
    /\ fanfic.chapters # <<>>
    /\ \E k \in CascIds : casc[k].pc = "done"
    /\ fanfic.created_at < fanfic.updated_at

-----------------------------------------------------------------------------

\* An input that is valid but for its id, which it has not.
ValidWithoutId(in) ==
    /\ ~in.id.given
    /\ IsUrl(in.origin_url)
    /\ in.relationship_characters.given =>
          \A i \in DOMAIN in.relationship_characters.value :
             in.relationship_characters.value[i] # ""

\* C16: constructing a Fanfiction from an otherwise valid input that has no
\* id succeeds and gives the instance a generated identifier; two such
\* constructions give different ids, and an id supplied in the input is kept.
C16_IdDefaultsToFreshIdentifier ==
    /\ \A i \in DOMAIN made :
          ValidWithoutId(made[i].in) => made[i].ok /\ made[i].out.id \in Uuids
    /\ \A i, j \in DOMAIN made :
          (i # j /\ ValidWithoutId(made[i].in) /\ ValidWithoutId(made[j].in))
             => made[i].out.id # made[j].out.id
    /\ \A i \in DOMAIN made :
          (made[i].ok /\ made[i].in.id.given) => made[i].out.id = made[i].in.id.value

-----------------------------------------------------------------------------

\* The Paragraph instances constructed from an input without a hash.
WithoutHash == {i \in DOMAIN pmade : ~pmade[i].in.hash.given}

\* C17: a Paragraph constructed without a hash gets a hash that depends only
\* on its original.raw: it is the digest of original.raw, so any two such
\* paragraphs with equal original.raw have equal hash, whatever their index,
\* language, translations or owning chapter, and addParagraph, which rewrites
\* index, leaves it as it is.
C17_HashIsFingerprintOfRaw ==
    /\ \A i \in WithoutHash :
          pmade[i].hash.given /\ pmade[i].hash.value = md5(pmade[i].raw)
    /\ \A i, j \in WithoutHash :
          pmade[i].raw = pmade[j].raw => pmade[i].hash = pmade[j].hash

-----------------------------------------------------------------------------

\* The last operation on the instance was a setRichText() that failed in the
\* annotator.
AnnotationFailed ==
    ltOut.op = "setRichText" /\ ~ltOut.ok /\ ltOut.error = AnnotationError

\* C21: when tokenization yields no result for the raw text of a Russian
\* LocalizedText, setRichText() fails with an error that cites the text, and
\* rich is left empty; a setRichText() call that follows the failure invokes
\* the annotator again instead of being skipped.
C21_FailedAnnotationLeavesRichEmpty ==
    [][/\ (SetRichTextCall /\ lt.language.code = "ru" /\ lt.rich = <<>>
             /\ ltHist.tokenizerFails)
          => /\ ltOut'.op = "setRichText" /\ ~ltOut'.ok
             /\ ltOut'.error = AnnotationError
             /\ ltOut'.cites = lt.raw
             /\ ltCall'.pc = "idle"
             /\ lt'.rich = <<>>
       /\ (SetRichTextCall /\ AnnotationFailed)
          => /\ ltHist'.invoked
             /\ ltHist'.calls = ltHist.calls + 1]_vars

\* Two calls in succession on a Russian text, both failed in the annotator.
C21_Witness ==
    /\ AnnotationFailed
    /\ ltHist.calls = 2
    /\ ltHist.invoked
    /\ lt.language.code = "ru"
    /\ lt.rich = <<>>
    /\ ltOut.cites = lt.raw
    /\ \E i \in DOMAIN lt.raw : lt.raw[i] \in Cyrillic

-----------------------------------------------------------------------------

\* A fork() call of this step.
Forking ==
    \/ \E this \in ReqIds, in \in ForkInputs : Fork(this, in)
    \/ \E this, value \in ReqIds : ForkRequest(this, value)

\* C22: fork() returns a new HttpRequest and does not mutate the request it is
\* called on: whatever the forks, the path, origin, method and headers (names
\* and values) of an instance stay what they were, and changing the headers
\* of one instance changes the headers of no other.
C22_ForkDoesNotMutate ==
    [][/\ \A i \in ReqIds : reqs[i].alive =>
             /\ reqs'[i] = reqs[i]
             /\ Forking => hdrs'[reqs'[i].headers] = hdrs[reqs[i].headers]
             /\ \A k \in ReqIds \ {i}, name \in HeaderNames :
                   SetHeader(k, name, "3") =>
                      hdrs'[reqs'[i].headers] = hdrs[reqs[i].headers]
       /\ \A this \in ReqIds, in \in ForkInputs :
             (Fork(this, in) /\ RequestInputValid(in)) =>
                \E j \in ReqIds :
                   /\ ~reqs[j].alive /\ reqs'[j].alive
                   /\ \A i \in ReqIds \ {j} :
                         reqs'[i].alive => reqs'[i].headers # reqs'[j].headers]_vars

\* An original with two forks: the forks took other headers, a header of the
\* first fork was changed afterwards, and the original has what it had.
C22_Witness ==
    /\ \A i \in ReqIds : reqs[i].alive
    /\ reqs[1].path = "/original" /\ reqs[1].origin = "" /\ reqs[1].method = "GET"
    /\ hdrs[reqs[1].headers] = HeadersOf("1", "")
    /\ reqs[2].path = "/forked"
    /\ hdrs[reqs[2].headers] = HeadersOf("3", "")
    /\ reqs[3].origin = ExampleOrigin
    /\ hdrs[reqs[3].headers] = HeadersOf("1", "text/html")

-----------------------------------------------------------------------------

\* The events of running every interceptor of the lists once, in list order,
\* the client's before the call's.
Once(kind, client, call) ==
    [i \in DOMAIN unique(client \o call) |-> <<kind, unique(client \o call)[i]>>]

\* C23: for a request sent through HttpClient that returns its response, every
\* request interceptor of the client and of the call was invoked exactly once,
\* in list order, before the single fetch, and every response interceptor
\* exactly once, in list order, after the body was read; an interceptor that
\* is in the client's list and in the call's is invoked once.
C23_InterceptorsRunOnce ==
    http.out.kind = "returned" =>
       http.log = Once("request", http.in.clientRequest, http.in.callRequest)
                     \o <<<<"fetch">>, <<"body">>>>
                     \o Once("response", http.in.clientResponse, http.in.callResponse)

-----------------------------------------------------------------------------

\* How many times the call did what `event` names.
Times(event) == Cardinality({i \in DOMAIN http.log : http.log[i][1] = event})

\* C24: HttpClient.request rejects with an HttpError whose cause carries the
\* status and the body of the response whenever the response is not ok, after
\* exactly one fetch, with no response interceptor run and no response
\* returned; a config without url is rejected with a TypeError before any
\* fetch.
C24_NotOkRejectsWithHttpError ==
    (http.variant = "request" /\ http.pc = "done") =>
       /\ (http.res.kind = "response" /\ ~http.res.ok) =>
             /\ http.out = RejectedWith(HttpError, http.res.status, http.res.body)
             /\ Times("fetch") = 1
             /\ Times("response") = 0
       /\ ~http.in.url =>
             /\ http.out.kind = "rejected" /\ http.out.error = TypeError
             /\ Times("fetch") = 0

-----------------------------------------------------------------------------

\* rich of the text at loc was assigned: a call invoked the annotator for it
\* and is not waiting for that annotation any more.
AssignedAlready(loc) ==
    \E i \in DOMAIN log :
       /\ log[i].target = loc
       /\ log[i].outcome = "invoked"
       /\ ~(casc[log[i].call].pc = "await" /\ casc[log[i].call].target = loc)

\* C25: in every execution, also when two setRichTexts() calls (two
\* setRichText() calls on one LocalizedText) overlap at an await, rich of a
\* text is assigned at most once, and the annotator is invoked for a text
\* only while its rich is empty.
C25_RichAssignedAtMostOnce ==
    [][\A k \in DOMAIN casc :
          /\ SetRichTextsResume(k) => ~AssignedAlready(casc[k].target)
          /\ (SetRichTextsStep(k) /\ casc'[k].pc = "await")
                => HelperText(casc'[k].target).text.rich = <<>>]_vars

-----------------------------------------------------------------------------

\* The text in which every occurrence of every word is wrapped in one ruby
\* element with its transliteration, and nothing else is changed: the words
\* are the maximal runs of word characters, `word` the run being read.
RECURSIVE WrapWords(_, _)
WrapWords(s, word) ==
    LET wrapped == IF word = <<>> THEN <<>>
                   ELSE RubyTemplate(word, transliterateRussian(word))
    IN IF s = <<>> THEN wrapped
       ELSE IF IsWordChar(Head(s)) THEN WrapWords(Tail(s), Append(word, Head(s)))
       ELSE wrapped \o <<Head(s)>> \o WrapWords(Tail(s), <<>>)

\* C26: in the Russian annotation of a text every occurrence of every word of
\* the input is wrapped in exactly one ruby element that carries its
\* transliteration, and no replacement is applied inside the text of an
\* earlier replacement, whatever the order of the words.
C26_EveryWordWrappedOnce ==
    (lt.exists /\ lt.language.code = "ru" /\ lt.rich # <<>>) =>
       lt.rich = WrapWords(lt.raw, <<>>)


-----------------------------------------------------------------------------

\* A call of updateLanguage(x), of either class, with a value the language
\* schema refuses.
InvalidUpdate ==
    \E x \in UpdateInputs :
        /\ ~LanguageSchema(StrIn(x)).ok
        /\ UpdateLanguage(x) \/ UpdateLanguageParse(x)

\* C27: updateLanguage(x) with x that is neither a code nor a name of the
\* registry fails with a validation error that reaches the caller and leaves
\* the language as it was; the call never returns normally with the value
\* ignored.
C27_InvalidLanguageIsSurfaced ==
    [][ InvalidUpdate =>
           /\ ~ltOut'.ok
           /\ ltOut'.error = ZodError
           /\ lt'.language = lt.language
      ]_vars

-----------------------------------------------------------------------------

\* C28: addParagraph or addChapter called with a plain input that fails
\* validation throws; the paragraphs / chapters sequence of the parent is what
\* it was before the call and, for addChapter, updated_at is unchanged; what
\* remains of the call is the index assigned to the input object of the caller
\* before the validation.
C28_FailedAddLeavesParentUntouched ==
    [][ /\ \A c \in ChapIds :
              (AddParagraph(c) /\ ~ret'.ok) =>
                 /\ ret'.value = ZodError
                 /\ chap'[c].paragraphs = chap[c].paragraphs
                 /\ <<fanfic', chap', par'>> = <<fanfic, chap, par>>
                 /\ ret'.written = Given(Len(chap[c].paragraphs))
        /\ (AddChapter /\ ~ret'.ok) =>
              /\ ret'.value = ZodError
              /\ fanfic'.chapters = fanfic.chapters
              /\ fanfic'.updated_at = fanfic.updated_at
              /\ <<fanfic', chap', par'>> = <<fanfic, chap, par>>
              /\ ret'.written = Given(Len(fanfic.chapters))
      ]_vars

\* C28 witness: an addChapter call with an invalid input has thrown on a
\* document of one chapter, at a time later than the last update; the input
\* carries the index 1.
C28_Witness ==
    /\ ret.op = "addChapter"
    /\ ~ret.ok
    /\ ret.written = Given(1)
    /\ Len(fanfic.chapters) = 1
    /\ fanfic.updated_at < now

-----------------------------------------------------------------------------

\* C29: over any number of setEnglishTranslation calls on one
\* TranslatableText, sequential or overlapping at the await of the translator,
\* the translator is called at most once and at most one translation is
\* appended.
C29_TranslatesAtMostOnce ==
    /\ en.translated <= 1
    /\ en.appended <= 1

-----------------------------------------------------------------------------

Occurrences(loc, targets) == Cardinality({i \in DOMAIN targets : targets[i] = loc})

====
